---- MODULE Spec2Model ----
(***************************************************************************)
(* Model of the RISC Zero host harness (risc0code/host), its guest kernels *)
(* (risc0code/methods) and the offline verifier (risc0code/verify).        *)
(*                                                                         *)
(* Numbers.  TLC integers are 32 bits wide, so a 64-bit journal field is   *)
(* kept as its 8 little-endian bytes; a field whose bytes are the sign     *)
(* extension of a 32-bit value is read back as [int |-> n], any other      *)
(* byte pattern as [wide |-> bytes] (distinct patterns stay distinct).     *)
(* A decimal (an f64 in the code) is an integer count of 1/DecUnit units   *)
(* on the input side and the exact quotient [num |-> fixed, den |-> scale] *)
(* on the output side.                                                     *)
(***************************************************************************)
EXTENDS Integers, Sequences, FiniteSets, TLC

(***************************************************************************)
(* Program constants                                                       *)
(***************************************************************************)
\* host/src/main.rs:10   const SCALE: i64 = 100000;
SCALE == 100000
\* methods/guest/src/main.rs:9   const SCALE: i64 = 100000;   (declared, unused by the kernel)
GUEST_ADD_SCALE == 100000
\* methods/guest-multiply/src/main.rs:9   const SCALE: i64 = 10000;
GUEST_MULTIPLY_SCALE == 10000
\* methods/guest-sqrt/src/main.rs:9   const SCALE: i64 = 10000;
GUEST_SQRT_SCALE == 10000
\* verify/src/main.rs:132 and :229   let scale = 100000i64;
VERIFY_SQRT_SCALE == 100000
VERIFY_DECIMAL_SCALE == 100000

(***************************************************************************)
(* Bounds of the model                                                     *)
(***************************************************************************)
\* the wall clock (seconds) takes the values 1..MaxClock
MaxClock == 2
\* number of filler bytes appended to a journal in the codec universe
MaxExtra == 8

\* resolution of the decimal inputs: a decimal argument is n / DecUnit, one
\* decimal digit finer than the host's fixed-point scale
DecUnit == 10 * SCALE

(***************************************************************************)
(* Byte-level integer codec                                                *)
(***************************************************************************)
Zeros(n) == [i \in 1..n |-> 0]

\* the low four bytes of a value 0 <= v < 2^31, least significant first
LE4(v) == << v % 256, (v \div 256) % 256, (v \div 65536) % 256, (v \div 16777216) % 256 >>

\* env::commit(&x) of an i64: two's complement, 8 little-endian bytes
I64ToLE(v) ==
    IF v >= 0 THEN LE4(v) \o <<0, 0, 0, 0>>
    ELSE LET u == (v + 2147483647) + 1
             b == LE4(u)
         IN  << b[1], b[2], b[3], b[4] + 128, 255, 255, 255, 255 >>

\* env::commit(&x) of a u64
U64ToLE(v) == LE4(v) \o <<0, 0, 0, 0>>

\* env::commit(&x) of a bool: one u32 word, 1 or 0
BoolToLE(x) == IF x THEN <<1, 0, 0, 0>> ELSE <<0, 0, 0, 0>>

\* a decoded 64-bit value: [int |-> n] when it is within the model's integers,
\* [wide |-> its eight bytes] otherwise
W(n) == [int |-> n]
IsWide(v) == DOMAIN v = {"wide"}

Low31(b) == b[1] + 256 * b[2] + 65536 * b[3] + 16777216 * (b[4] % 128)

\* i64::from_le_bytes([b0..b7])
I64FromLE(b) ==
    IF b[4] < 128 /\ b[5] = 0 /\ b[6] = 0 /\ b[7] = 0 /\ b[8] = 0 THEN W(Low31(b))
    ELSE IF b[4] >= 128 /\ b[5] = 255 /\ b[6] = 255 /\ b[7] = 255 /\ b[8] = 255
         THEN W((Low31(b) - 2147483647) - 1)
    ELSE [wide |-> b]

\* u64::from_le_bytes([b0..b7])
U64FromLE(b) ==
    IF b[4] < 128 /\ b[5] = 0 /\ b[6] = 0 /\ b[7] = 0 /\ b[8] = 0 THEN W(Low31(b))
    ELSE [wide |-> b]

\* u32::from_le_bytes([b0..b3]) != 0
BoolFromLE(b) == b # <<0, 0, 0, 0>>

\* bytes[off .. off+n) with the code's 0-based offsets
Slice(bytes, off, n) == SubSeq(bytes, off + 1, off + n)

(***************************************************************************)
(* Fixed-point codec                                                       *)
(***************************************************************************)
\* Rust integer division by a positive constant: truncates toward zero
TruncDiv(a, b) == IF a >= 0 THEN a \div b ELSE -((-a) \div b)

\* f64::round of n/d (d > 0): nearest integer, ties away from zero
RoundDiv(n, d) ==
    IF n >= 0 THEN (2 * n + d) \div (2 * d)
    ELSE -((2 * (-n) + d) \div (2 * d))

\* a conversion that uses the host's scale whatever scale it is given
ToFixed_AlwaysHostScale(d, scale) == RoundDiv(d, DecUnit \div SCALE)

\* (decimal * scale as f64).round() as i64, for decimal = d / DecUnit
ToFixed(d, scale) == RoundDiv(d, DecUnit \div scale)

decimal_to_fixed_point(d) == ToFixed(d, SCALE)

\* fixed as f64 / scale as f64
FromFixed(fixed, scale) == [num |-> fixed, den |-> scale]

fixed_point_to_decimal(fixed) == FromFixed(fixed, SCALE)

(***************************************************************************)
(* Guest kernels: what each execution program computes and commits         *)
(***************************************************************************)
\* a kernel that commits the difference of its inputs
GuestAdd_Difference(a, b) == << a, b, a - b >>

\* methods/guest/src/main.rs: result = a + b
GuestAdd(a, b) == << a, b, a + b >>

\* methods/guest-multiply/src/main.rs: result = (a * b) / SCALE
GuestMultiply(a, b) == << a, b, TruncDiv(a * b, GUEST_MULTIPLY_SCALE) >>

\* methods/guest-sqrt/src/main.rs newton_sqrt: at most 10 Newton steps
RECURSIVE NewtonIter(_, _, _)
NewtonIter(n_fixed, x, iters) ==
    IF iters = 0 THEN x
    ELSE LET x_new == TruncDiv(x + TruncDiv(n_fixed * GUEST_SQRT_SCALE, x), 2)
         IN  IF x - x_new < 1 /\ x_new - x < 1 THEN x
             ELSE NewtonIter(n_fixed, x_new, iters - 1)

newton_sqrt(n_fixed) ==
    IF n_fixed <= 0 THEN 0
    ELSE NewtonIter(n_fixed,
                    IF n_fixed > GUEST_SQRT_SCALE THEN TruncDiv(n_fixed, 2)
                    ELSE GUEST_SQRT_SCALE,
                    10)

\* methods/guest-sqrt/src/main.rs fixed_point_sqrt: the binary search loop
RECURSIVE SqrtSearch(_, _, _, _)
SqrtSearch(n_fixed, left, right, result) ==
    IF left > right THEN result
    ELSE LET mid == left + TruncDiv(right - left, 2)
             mid_squared == TruncDiv(mid * mid, GUEST_SQRT_SCALE)
         IN  IF mid_squared = n_fixed THEN mid
             ELSE IF mid_squared < n_fixed
                  THEN SqrtSearch(n_fixed, mid + 1, right, mid)
                  ELSE SqrtSearch(n_fixed, left, mid - 1, result)

fixed_point_sqrt(n_fixed) ==
    IF n_fixed <= 0 THEN 0
    ELSE IF n_fixed < GUEST_SQRT_SCALE THEN newton_sqrt(n_fixed)
    ELSE SqrtSearch(n_fixed, 0, n_fixed, 0)

GuestSqrt(n_fixed) == << n_fixed, fixed_point_sqrt(n_fixed) >>

\* methods/guest-modexp/src/main.rs modular_multiply: (a * b) % modulus in u128
modular_multiply(a, b, modulus) == (a * b) % modulus

RECURSIVE ModExpLoop(_, _, _, _)
ModExpLoop(base, exponent, modulus, result) ==
    IF exponent = 0 THEN result
    ELSE ModExpLoop(modular_multiply(base, base, modulus),
                    exponent \div 2,
                    modulus,
                    IF exponent % 2 = 1 THEN modular_multiply(result, base, modulus)
                    ELSE result)

\* an exponentiation that tests the exponent before the modulus
modular_exponentiation_ExponentFirst(base, exponent, modulus) ==
    IF exponent = 0 THEN 1
    ELSE IF modulus = 0 THEN 0
    ELSE IF modulus = 1 THEN 0
    ELSE IF base % modulus = 0 THEN 0
    ELSE ModExpLoop(base % modulus, exponent, modulus, 1)

\* methods/guest-modexp/src/main.rs modular_exponentiation
modular_exponentiation(base, exponent, modulus) ==
    IF modulus = 0 THEN 0
    ELSE IF modulus = 1 THEN 0
    ELSE IF exponent = 0 THEN 1
    ELSE IF base % modulus = 0 THEN 0
    ELSE ModExpLoop(base % modulus, exponent, modulus, 1)

GuestModexp(base, exponent, modulus) ==
    << base, exponent, modulus, modular_exponentiation(base, exponent, modulus) >>

\* a range check that commits the secret where the lower bound belongs
GuestRange_CommitsSecret(secret_number, min_value, max_value) ==
    << secret_number >= min_value /\ secret_number <= max_value,
       secret_number >= min_value, secret_number <= max_value, secret_number, max_value >>

\* a range check whose upper comparison is strict
GuestRange_StrictBelow(secret_number, min_value, max_value) ==
    << secret_number >= min_value /\ secret_number < max_value,
       secret_number >= min_value, secret_number < max_value, min_value, max_value >>

\* methods/guest-range/src/main.rs
GuestRange(secret_number, min_value, max_value) ==
    << secret_number >= min_value /\ secret_number <= max_value,
       secret_number >= min_value,
       secret_number <= max_value,
       min_value,
       max_value >>

\* methods/guest_authenticated_add/src/main.rs: the ComputationResult
GuestAuthenticatedAdd(a, b, timestamp, task_id) ==
    << a, b, a + b, timestamp, task_id >>

(***************************************************************************)
(* Text: a string is the sequence of its ASCII codes                       *)
(***************************************************************************)
Letters == << "a", "b", "c", "d", "e", "f", "g", "h", "i", "j", "k", "l", "m",
              "n", "o", "p", "q", "r", "s", "t", "u", "v", "w", "x", "y", "z" >>

AsciiOf(c) ==
    IF c = "_" THEN 95
    ELSE IF c = "." THEN 46
    ELSE IF c = "-" THEN 45
    ELSE 96 + (CHOOSE i \in 1..26 : Letters[i] = c)

Text(s) == [i \in 1..Len(s) |-> AsciiOf(s[i])]

\* format!("{}", n) of an unsigned integer
RECURSIVE Digits(_)
Digits(n) == IF n < 10 THEN << 48 + n >> ELSE Digits(n \div 10) \o << 48 + (n % 10) >>

\* format!("{}", n) of a signed integer
Display(n) == IF n < 0 THEN << 45 >> \o Digits(-n) ELSE Digits(n)

\* str::contains
Contains(s, sub) ==
    \E i \in 0..(Len(s) - Len(sub)) : SubSeq(s, i + 1, i + Len(sub)) = sub

\* str::ends_with
EndsWith(s, suffix) ==
    Len(s) >= Len(suffix) /\ SubSeq(s, Len(s) - Len(suffix) + 1, Len(s)) = suffix

\* the operation names the programs match on, as text
OpText(op) ==
    CASE op = "add" -> Text(<<"a","d","d">>)
      [] op = "multiply" -> Text(<<"m","u","l","t","i","p","l","y">>)
      [] op = "sqrt" -> Text(<<"s","q","r","t">>)
      [] op = "modexp" -> Text(<<"m","o","d","e","x","p">>)
      [] op = "range" -> Text(<<"r","a","n","g","e">>)
      [] op = "dynamic" -> Text(<<"d","y","n","a","m","i","c">>)
      [] op = "precompiled" -> Text(<<"p","r","e","c","o","m","p","i","l","e","d">>)
      [] op = "authenticated_add" ->
             Text(<<"a","u","t","h","e","n","t","i","c","a","t","e","d","_","a","d","d">>)
      [] op = "subtract" -> Text(<<"s","u","b","t","r","a","c","t">>)

\* host/src/main.rs:362 and :438  format!("auth_{}_{}_{}_{}", timestamp, a, b, key_id)
TaskId(timestamp, a, b, key_id) ==
    Text(<<"a","u","t","h","_">>) \o Digits(timestamp) \o <<95>> \o Display(a)
        \o <<95>> \o Display(b) \o <<95>> \o key_id

(***************************************************************************)
(* Journals: the bytes env::commit appends, in commit order                *)
(***************************************************************************)
\* number of zero bytes that pad n bytes to a whole 32-bit word
PadLen(n) == (4 - (n % 4)) % 4

\* the zkVM serializer's encoding of a String: u32 length, bytes, word padding
StringToWords(str) == LE4(Len(str)) \o str \o Zeros(PadLen(Len(str)))

\* methods/guest/src/main.rs:20-22
CommitAdd(f) == I64ToLE(f[1]) \o I64ToLE(f[2]) \o I64ToLE(f[3])

\* methods/guest-multiply/src/main.rs:21-23
CommitMultiply(f) == I64ToLE(f[1]) \o I64ToLE(f[2]) \o I64ToLE(f[3])

\* methods/guest-sqrt/src/main.rs:19-20
CommitSqrt(f) == I64ToLE(f[1]) \o I64ToLE(f[2])

\* methods/guest-modexp/src/main.rs:18-21
CommitModexp(f) == U64ToLE(f[1]) \o U64ToLE(f[2]) \o U64ToLE(f[3]) \o U64ToLE(f[4])

\* methods/guest-range/src/main.rs:26-32
CommitRange(f) ==
    BoolToLE(f[1]) \o BoolToLE(f[2]) \o BoolToLE(f[3]) \o U64ToLE(f[4]) \o U64ToLE(f[5])

\* methods/guest_authenticated_add/src/main.rs:45: the struct, field by field
CommitAuthenticatedAdd(f) ==
    I64ToLE(f[1]) \o I64ToLE(f[2]) \o I64ToLE(f[3]) \o U64ToLE(f[4]) \o StringToWords(f[5])

\* test_dynamic_rust.rs:38 and the example guests: one i64 result
CommitResult(f) == I64ToLE(f[1])

\* the journal the execution program of an operation commits for its fields
Commit(op, f) ==
    CASE op = "add" -> CommitAdd(f)
      [] op = "multiply" -> CommitMultiply(f)
      [] op = "sqrt" -> CommitSqrt(f)
      [] op = "modexp" -> CommitModexp(f)
      [] op = "range" -> CommitRange(f)
      [] op = "authenticated_add" -> CommitAuthenticatedAdd(f)
      [] op \in {"dynamic", "precompiled"} -> CommitResult(f)

(***************************************************************************)
(* Host: journal extraction  (host/src/main.rs:484-673)                    *)
(***************************************************************************)
DecodeError(msg) == [ok |-> FALSE, err |-> msg]

Decoded(layout, fields, decimal_result, result_for_json) ==
    [ok |-> TRUE, layout |-> layout, fields |-> fields,
     decimal_result |-> decimal_result, result_for_json |-> result_for_json]

\* `x as i64` of a u64 below 2^63, and `x as f64` shown exactly
AsDecimal(x) == [num |-> x, den |-> 1]

HostDecodeSqrt(bytes) ==
    IF Len(bytes) < 16 THEN DecodeError("Journal too short for sqrt operation")
    ELSE LET input_fixed == I64FromLE(Slice(bytes, 0, 8))
             sqrt_result_fixed == I64FromLE(Slice(bytes, 8, 8))
         IN  Decoded(<<"i64", "i64">>, << input_fixed, sqrt_result_fixed >>,
                     fixed_point_to_decimal(sqrt_result_fixed), sqrt_result_fixed)

HostDecodeDecimal(bytes) ==
    IF Len(bytes) < 24 THEN DecodeError("Journal too short for decimal operation")
    ELSE LET a_fixed == I64FromLE(Slice(bytes, 0, 8))
             b_fixed == I64FromLE(Slice(bytes, 8, 8))
             result_fixed == I64FromLE(Slice(bytes, 16, 8))
         IN  Decoded(<<"i64", "i64", "i64">>, << a_fixed, b_fixed, result_fixed >>,
                     fixed_point_to_decimal(result_fixed), result_fixed)

HostDecodeModexp(bytes) ==
    IF Len(bytes) < 32 THEN DecodeError("Journal too short for modexp operation")
    ELSE LET base == U64FromLE(Slice(bytes, 0, 8))
             exponent == U64FromLE(Slice(bytes, 8, 8))
             modulus == U64FromLE(Slice(bytes, 16, 8))
             result == U64FromLE(Slice(bytes, 24, 8))
         IN  Decoded(<<"u64", "u64", "u64", "u64">>, << base, exponent, modulus, result >>,
                     AsDecimal(result), result)

\* a range decoder that reads the two bounds from one word too early
HostDecodeRange_BoundsShifted(bytes) ==
    IF Len(bytes) < 28 THEN DecodeError("Journal too short for range operation")
    ELSE LET in_range == BoolFromLE(Slice(bytes, 0, 4))
             above_min == BoolFromLE(Slice(bytes, 4, 4))
             below_max == BoolFromLE(Slice(bytes, 8, 4))
             min_value == U64FromLE(Slice(bytes, 8, 8))
             max_value == U64FromLE(Slice(bytes, 16, 8))
         IN  Decoded(<<"u32", "u32", "u32", "u64", "u64">>,
                     << in_range, above_min, below_max, min_value, max_value >>,
                     AsDecimal(W(IF in_range THEN 1 ELSE 0)), W(IF in_range THEN 1 ELSE 0))

HostDecodeRange(bytes) ==
    IF Len(bytes) < 28 THEN DecodeError("Journal too short for range operation")
    ELSE LET in_range == BoolFromLE(Slice(bytes, 0, 4))
             above_min == BoolFromLE(Slice(bytes, 4, 4))
             below_max == BoolFromLE(Slice(bytes, 8, 4))
             min_value == U64FromLE(Slice(bytes, 12, 8))
             max_value == U64FromLE(Slice(bytes, 20, 8))
         IN  Decoded(<<"u32", "u32", "u32", "u64", "u64">>,
                     << in_range, above_min, below_max, min_value, max_value >>,
                     AsDecimal(W(IF in_range THEN 1 ELSE 0)), W(IF in_range THEN 1 ELSE 0))

\* receipt.journal.decode::<ComputationResult>(): the zkVM deserializer reads the
\* four 64-bit fields, the u32 string length and the padded string bytes, and ends
\* in an error when the journal stops before that
HostDecodeAuthenticatedAdd(bytes) ==
    IF Len(bytes) < 36
    THEN DecodeError("Failed to decode computation result from journal")
    ELSE LET n == Slice(bytes, 32, 4)
             len == Low31(n)
         IN  IF n[4] >= 128 \/ Len(bytes) < 36 + len + PadLen(len)
             THEN DecodeError("Failed to decode computation result from journal")
             ELSE LET a == I64FromLE(Slice(bytes, 0, 8))
                      b == I64FromLE(Slice(bytes, 8, 8))
                      result == I64FromLE(Slice(bytes, 16, 8))
                      timestamp == U64FromLE(Slice(bytes, 24, 8))
                      task_id == Slice(bytes, 36, len)
                  IN  Decoded(<<"i64", "i64", "i64", "u64", "String">>,
                              << a, b, result, timestamp, task_id >>,
                              AsDecimal(result), result)

HostDecodeDynamic(bytes) ==
    IF Len(bytes) < 8 THEN DecodeError("Journal too short for dynamic operation")
    ELSE LET result_i64 == I64FromLE(Slice(bytes, 0, 8))
         IN  Decoded(<<"i64">>, << result_i64 >>, AsDecimal(result_i64), result_i64)

HostDecode(op, bytes) ==
    CASE op = "sqrt" -> HostDecodeSqrt(bytes)
      [] op \in {"add", "multiply"} -> HostDecodeDecimal(bytes)
      [] op = "modexp" -> HostDecodeModexp(bytes)
      [] op = "range" -> HostDecodeRange(bytes)
      [] op = "authenticated_add" -> HostDecodeAuthenticatedAdd(bytes)
      [] op \in {"dynamic", "precompiled"} -> HostDecodeDynamic(bytes)
      [] OTHER -> DecodeError("Unknown operation")

(***************************************************************************)
(* Verifier: journal extraction  (verify/src/main.rs:109-242)              *)
(***************************************************************************)
VDecoded(layout, fields, decimal_result, result) ==
    [ok |-> TRUE, layout |-> layout, fields |-> fields,
     decimal_result |-> decimal_result, result |-> result]

\* `x as i32` of a 64-bit integer: the low 32 bits, as a signed value
IntAsI32(x) ==
    IF IsWide(x)
    THEN (IF x.wide[4] >= 128 THEN (Low31(x.wide) - 2147483647) - 1 ELSE Low31(x.wide))
    ELSE x.int

\* the magnitude of a negative two's-complement value: invert the bytes, add one
RECURSIVE AddOne(_)
AddOne(b) ==
    IF b = << >> THEN << >>
    ELSE IF Head(b) = 255 THEN << 0 >> \o AddOne(Tail(b))
    ELSE << Head(b) + 1 >> \o Tail(b)

Magnitude(b) == IF b[8] >= 128 THEN AddOne([i \in 1..8 |-> 255 - b[i]]) ELSE b

\* the quotient of an unsigned little-endian number by d, most significant byte first
RECURSIVE DivBytes(_, _, _)
DivBytes(b, d, rem) ==
    IF b = << >> THEN << >>
    ELSE LET cur == rem * 256 + b[Len(b)]
         IN  DivBytes(SubSeq(b, 1, Len(b) - 1), d, cur % d) \o << cur \div d >>

\* `x as i32` of the f64 fixed / scale: truncation toward zero, saturating
DecimalAsI32(fixed, scale) ==
    IF ~IsWide(fixed) THEN TruncDiv(fixed.int, scale)
    ELSE LET negative == fixed.wide[8] >= 128
             q == DivBytes(Magnitude(fixed.wide), scale, 0)
             fits == q[4] < 128 /\ q[5] = 0 /\ q[6] = 0 /\ q[7] = 0 /\ q[8] = 0
         IN  IF fits THEN (IF negative THEN -Low31(q) ELSE Low31(q))
             ELSE IF negative THEN (-2147483647) - 1 ELSE 2147483647

VerifyDecodeSqrt(bytes) ==
    IF Len(bytes) < 16 THEN DecodeError("Journal too short for sqrt operation")
    ELSE LET input_fixed == I64FromLE(Slice(bytes, 0, 8))
             sqrt_result_fixed == I64FromLE(Slice(bytes, 8, 8))
         IN  VDecoded(<<"i64", "i64">>, << input_fixed, sqrt_result_fixed >>,
                      FromFixed(sqrt_result_fixed, VERIFY_SQRT_SCALE),
                      DecimalAsI32(sqrt_result_fixed, VERIFY_SQRT_SCALE))

VerifyDecodeModexp(bytes) ==
    IF Len(bytes) < 32 THEN DecodeError("Journal too short for modexp operation")
    ELSE LET base == U64FromLE(Slice(bytes, 0, 8))
             exponent == U64FromLE(Slice(bytes, 8, 8))
             modulus == U64FromLE(Slice(bytes, 16, 8))
             result == U64FromLE(Slice(bytes, 24, 8))
         IN  VDecoded(<<"u64", "u64", "u64", "u64">>, << base, exponent, modulus, result >>,
                      AsDecimal(result), IntAsI32(result))

VerifyDecodeRange(bytes) ==
    IF Len(bytes) < 28 THEN DecodeError("Journal too short for range operation")
    ELSE LET in_range == BoolFromLE(Slice(bytes, 0, 4))
             above_min == BoolFromLE(Slice(bytes, 4, 4))
             below_max == BoolFromLE(Slice(bytes, 8, 4))
             min_value == U64FromLE(Slice(bytes, 12, 8))
             max_value == U64FromLE(Slice(bytes, 20, 8))
         IN  VDecoded(<<"u32", "u32", "u32", "u64", "u64">>,
                      << in_range, above_min, below_max, min_value, max_value >>,
                      AsDecimal(W(IF in_range THEN 1 ELSE 0)), IF in_range THEN 1 ELSE 0)

VerifyDecodePrecompiled(bytes) ==
    IF Len(bytes) < 8 THEN DecodeError("Journal too short for precompiled operation")
    ELSE LET result == I64FromLE(Slice(bytes, 0, 8))
         IN  VDecoded(<<"i64">>, << result >>, AsDecimal(result), IntAsI32(result))

\* the `_` arm: every other operation name is read as a decimal operation
VerifyDecodeDefault(bytes) ==
    IF Len(bytes) < 24 THEN DecodeError("Journal too short for decimal operation")
    ELSE LET a_fixed == I64FromLE(Slice(bytes, 0, 8))
             b_fixed == I64FromLE(Slice(bytes, 8, 8))
             result_fixed == I64FromLE(Slice(bytes, 16, 8))
         IN  VDecoded(<<"i64", "i64", "i64">>, << a_fixed, b_fixed, result_fixed >>,
                      FromFixed(result_fixed, VERIFY_DECIMAL_SCALE),
                      DecimalAsI32(result_fixed, VERIFY_DECIMAL_SCALE))

VerifyDecode(op, bytes) ==
    CASE op = "sqrt" -> VerifyDecodeSqrt(bytes)
      [] op = "modexp" -> VerifyDecodeModexp(bytes)
      [] op = "range" -> VerifyDecodeRange(bytes)
      [] op = "precompiled" -> VerifyDecodePrecompiled(bytes)
      [] OTHER -> VerifyDecodeDefault(bytes)

(***************************************************************************)
(* External collaborators (proving engine), by their contracts             *)
(***************************************************************************)
None == << >>
Some(x) == << x >>

\* [0u32; 8]
ZERO_ID == [kind |-> "zero", of |-> "zero"]

StaticElf(name) == [kind |-> "static", of |-> name]
StaticId(name) == [kind |-> "static", of |-> name]
BinaryElf(name) == [kind |-> "binary", of |-> name]

\* risc0_zkvm::compute_image_id: content-addressed, never the all-zero value
compute_image_id(elf) == [kind |-> "digest", of |-> elf.of]

\* the identifier of the image a receipt was produced by
ImageIdOf(elf) == IF elf.kind = "static" THEN StaticId(elf.of) ELSE compute_image_id(elf)

\* Receipt::verify(image_id): Ok exactly for a sound seal checked against the
\* identifier of the image that was executed
EngineVerify(receipt, id) == receipt.valid /\ id = ImageIdOf(receipt.image)

(***************************************************************************)
(* Inputs of the model                                                     *)
(***************************************************************************)
\* most command-line arguments after the operation name
MaxArgs == 4

Operations == {"add", "multiply", "sqrt", "modexp", "range",
               "authenticated_add", "dynamic", "precompiled"}

\* an operation name neither program knows
UnknownOperations == {"subtract"}

\* a numeric command-line argument: the text parses to val, or does not parse
Num(n) == [ok |-> TRUE, val |-> n]
NotANumber == [ok |-> FALSE, val |-> 0]
Nums(S) == { Num(n) : n \in S }

\* decimal arguments, in units of 1/DecUnit
AddDecimals == Nums({2500000, 4250000, -300000, 15})
MultiplyDecimals == Nums({100000, 250000, -300000, 15})
SqrtDecimals == Nums({250000, 40000, 0, -300000, 400000})
KeyIds == { Text(<<"k">>) }
Binaries == {"guest_a", "guest_b"}
JsonInputs == {"{\"n\": 10}", "{n: 10"}

\* serde_json::from_str(inputs_json).is_ok()
ValidJson(j) == j = "{\"n\": 10}"

RightArgs(op) ==
    CASE op = "add" -> (AddDecimals \X AddDecimals) \cup {<< NotANumber, Num(15) >>}
      [] op = "multiply" -> MultiplyDecimals \X MultiplyDecimals
      [] op = "sqrt" -> { <<n>> : n \in SqrtDecimals }
      [] op = "modexp" -> Nums({4, 10}) \X Nums({0, 13}) \X Nums({0, 1, 5, 497})
      [] op = "range" -> Nums({0, 7, 8, 10, 11}) \X Nums({1, 8}) \X Nums({10})
      [] op = "authenticated_add" -> Nums({3, -2}) \X Nums({4}) \X KeyIds
      [] op = "dynamic" -> {"guest.rs"} \X JsonInputs
      [] op = "precompiled" -> {"guest.bin"} \X JsonInputs
      [] OTHER -> { << Num(15), Num(15) >> }

\* the argument count each operation is documented to take
Arity(op) ==
    CASE op = "sqrt" -> 1
      [] op \in {"modexp", "range", "authenticated_add"} -> 3
      [] OTHER -> 2

ArgLists(op) ==
    RightArgs(op) \cup { [i \in 1..n |-> Num(15)] : n \in (0..MaxArgs) \ {Arity(op)} }

\* journals a caller-supplied guest program may commit
DynamicJournals ==
    { Zeros(4), CommitResult(<<55>>), CommitResult(<<-6>>) \o Zeros(MaxExtra),
      CommitResult(<<55>>) \o Zeros(2 * MaxExtra) }

(***************************************************************************)
(* State                                                                   *)
(***************************************************************************)
VARIABLES
    \* ---- one host invocation (host/src/main.rs main)
    operation,          \* args[1]
    args,               \* args[2..]
    hpc,                \* position in main, or how it ended
    herr,               \* the error main returned or exited with
    now,                \* the wall clock, seconds since the epoch
    fsDirs,             \* temporary build directories present on disk
    temp_dir,           \* Some(name) once this invocation has created its directory
    buildCalls,         \* invocations of the build toolchain
    proveCalls,         \* prover.prove calls issued
    dynamic_elf_data,   \* Option<Vec<u8>>
    dispatch,           \* (elf_data, image_id, expected_fixed) of the operation match
    env,                \* the ExecutorEnv: the values written and the scale they were encoded at
    receipt,            \* Some(receipt) once prove has returned
    committed,          \* the fields the guest kernel computed, and the scale it used
    hostRecord,         \* Some(result of the journal extraction)
    actual_image_id,    \* Some(id) once resolved
    verifyCalls,        \* identifiers passed to receipt.verify
    is_verified,
    files,              \* artifact files on disk: set of [name, content]
    output,             \* Some(JSON record printed)
    \* ---- one run of the offline verifier (verify/src/main.rs main)
    vArgs,              \* Args {file, expected, operation}
    vpc,
    verr,
    vOperation,
    vImageId,
    vReceiptBytes,      \* Some(receipt_bytes) once the proof file has been read
    vReceipt,
    vRecord,
    vVerifyCalls,
    \* ---- a second host invocation running beside the first
    peer,               \* its position, operation and temporary directory
    \* ---- the sqrt guest while fixed_point_sqrt runs
    guest               \* Some(left, right, result of the binary search)

hostVars == << operation, args, hpc, herr, now, fsDirs, temp_dir, buildCalls, proveCalls,
               dynamic_elf_data, dispatch, env, receipt, committed, hostRecord,
               actual_image_id, verifyCalls, is_verified, files, output >>

verifierVars == << vArgs, vpc, verr, vOperation, vImageId, vReceiptBytes, vReceipt, vRecord,
                   vVerifyCalls >>

vars == << hostVars, verifierVars, peer, guest >>

(***************************************************************************)
(* Host invocation  (host/src/main.rs main)                                *)
(***************************************************************************)
ADDITION == "ADDITION"
MULTIPLY_GUEST == "MULTIPLY_GUEST"
SQRT_GUEST == "SQRT_GUEST"
MODEXP_GUEST == "MODEXP_GUEST"
GUEST_RANGE == "GUEST_RANGE"
GUEST_AUTHENTICATED_ADD == "GUEST_AUTHENTICATED_ADD"

IsProvisioned(op) == op = "dynamic" \/ op = "precompiled"

\* an arity match without the sqrt arm: sqrt falls to the two-argument default
ArgLenOk_NoSqrtArm(op, n) ==
    CASE op = "modexp" -> n = 5
      [] op = "range" -> n = 5
      [] op = "dynamic" -> n = 4
      [] op = "precompiled" -> n = 4
      [] op = "authenticated_add" -> n = 5
      [] OTHER -> n = 4

\* the `match operation` on args.len() at the top of main; n is args.len()
ArgLenOk(op, n) ==
    CASE op = "sqrt" -> n = 3
      [] op = "modexp" -> n = 5
      [] op = "range" -> n = 5
      [] op = "dynamic" -> n = 4
      [] op = "precompiled" -> n = 4
      [] op = "authenticated_add" -> n = 5
      [] OTHER -> n = 4

HostInit ==
    /\ operation \in Operations \cup UnknownOperations
    /\ args \in ArgLists(operation)
    /\ hpc = "start"
    /\ herr = ""
    /\ now = 1
    /\ fsDirs = {}
    /\ temp_dir = None
    /\ buildCalls = 0
    /\ proveCalls = 0
    /\ dynamic_elf_data = None
    /\ dispatch = None
    /\ env = None
    /\ receipt = None
    /\ committed = None
    /\ hostRecord = None
    /\ actual_image_id = None
    /\ verifyCalls = << >>
    /\ is_verified = FALSE
    /\ files = {}
    /\ output = None

\* lines 165-217: wrong argument count: usage text and process::exit(1)
CheckArity ==
    /\ hpc = "start"
    /\ IF ArgLenOk(operation, Len(args) + 2)
       THEN hpc' = "provision" /\ herr' = herr
       ELSE hpc' = "exit" /\ herr' = "Usage"
    /\ UNCHANGED << operation, args, now, fsDirs, temp_dir, buildCalls, proveCalls,
                     dynamic_elf_data, dispatch, env, receipt, committed, hostRecord,
                     actual_image_id, verifyCalls, is_verified, files, output, peer, guest,
                     verifierVars >>

\* lines 222, 303-305: a built-in operation has no dynamic ELF data
ProvisionBuiltin ==
    /\ hpc = "provision"
    /\ ~IsProvisioned(operation)
    /\ hpc' = "dispatch"
    /\ UNCHANGED << operation, args, herr, now, fsDirs, temp_dir, buildCalls, proveCalls,
                     dynamic_elf_data, dispatch, env, receipt, committed, hostRecord,
                     actual_image_id, verifyCalls, is_verified, files, output, peer, guest,
                     verifierVars >>

\* lines 226-231: fs::read(guest_program_path)?
LoadPrecompiled ==
    /\ hpc = "provision"
    /\ operation = "precompiled"
    /\ \E r \in Binaries \cup {"io error"} :
          IF r = "io error"
          THEN hpc' = "error" /\ herr' = "io error" /\ dynamic_elf_data' = dynamic_elf_data
          ELSE hpc' = "dispatch" /\ herr' = herr /\ dynamic_elf_data' = Some(BinaryElf(r))
    /\ UNCHANGED << operation, args, now, fsDirs, temp_dir, buildCalls, proveCalls,
                     dispatch, env, receipt, committed, hostRecord, actual_image_id,
                     verifyCalls, is_verified, files, output, peer, guest, verifierVars >>

\* lines 235-237: temp_dir = temp_dir()/risc0_dynamic_<seconds>; create_dir_all(&temp_dir)?
CreateTempDir ==
    /\ hpc = "provision"
    /\ operation = "dynamic"
    /\ \E t \in now..MaxClock, ok \in BOOLEAN :
          /\ now' = t
          /\ IF ok
             THEN /\ fsDirs' = fsDirs \cup {t}
                  /\ temp_dir' = Some(t)
                  /\ hpc' = "write project"
                  /\ herr' = herr
             ELSE /\ fsDirs' = fsDirs
                  /\ temp_dir' = temp_dir
                  /\ hpc' = "error"
                  /\ herr' = "io error"
    /\ UNCHANGED << operation, args, buildCalls, proveCalls, dynamic_elf_data, dispatch,
                     env, receipt, committed, hostRecord, actual_image_id, verifyCalls,
                     is_verified, files, output, peer, guest, verifierVars >>

\* lines 239-264: write Cargo.toml, create src/, read the guest source, write
\* src/main.rs; each `?` returns the error and leaves the directory behind
WriteProject ==
    /\ hpc = "write project"
    /\ \E ok \in BOOLEAN :
          IF ok THEN hpc' = "build" /\ herr' = herr
          ELSE hpc' = "error" /\ herr' = "io error"
    /\ UNCHANGED << operation, args, now, fsDirs, temp_dir, buildCalls, proveCalls,
                     dynamic_elf_data, dispatch, env, receipt, committed, hostRecord,
                     actual_image_id, verifyCalls, is_verified, files, output, peer, guest,
                     verifierVars >>

\* lines 266-301: run `cargo risczero build`, check its status, locate and read
\* the binary, then remove the directory (the removal's result is discarded)
BuildGuest ==
    /\ hpc = "build"
    /\ \E outcome \in {"spawn error", "status failed", "no binary", "read error",
                       "built", "built, directory not removed"} :
          /\ buildCalls' = buildCalls + 1
          /\ CASE outcome = "spawn error" ->
                    /\ hpc' = "error" /\ herr' = "io error"
                    /\ UNCHANGED << fsDirs, dynamic_elf_data >>
               [] outcome = "status failed" ->
                    /\ hpc' = "error" /\ herr' = "Dynamic guest program compilation failed"
                    /\ UNCHANGED << fsDirs, dynamic_elf_data >>
               [] outcome = "no binary" ->
                    /\ hpc' = "error" /\ herr' = "Built ELF file not found"
                    /\ UNCHANGED << fsDirs, dynamic_elf_data >>
               [] outcome = "read error" ->
                    /\ hpc' = "error" /\ herr' = "io error"
                    /\ UNCHANGED << fsDirs, dynamic_elf_data >>
               [] outcome = "built" ->
                    /\ hpc' = "dispatch" /\ herr' = herr
                    /\ fsDirs' = fsDirs \ {temp_dir[1]}
                    /\ dynamic_elf_data' = Some(BinaryElf("guest_a"))
               [] outcome = "built, directory not removed" ->
                    /\ hpc' = "dispatch" /\ herr' = herr
                    /\ fsDirs' = fsDirs
                    /\ dynamic_elf_data' = Some(BinaryElf("guest_a"))
    /\ UNCHANGED << operation, args, now, temp_dir, proveCalls, dispatch, env, receipt,
                     committed, hostRecord, actual_image_id, verifyCalls, is_verified,
                     files, output, peer, guest, verifierVars >>

Dispatched(elf_data, image_id, expected) ==
    Some([elf_data |-> elf_data, image_id |-> image_id, expected |-> expected])

\* lines 44-51: the loop of modular_exponentiation_host, products taken in u128
RECURSIVE HostModExpLoop(_, _, _, _)
HostModExpLoop(base, exponent, modulus, result) ==
    IF exponent = 0 THEN result
    ELSE HostModExpLoop((base * base) % modulus,
                        exponent \div 2,
                        modulus,
                        IF exponent % 2 = 1 THEN (result * base) % modulus ELSE result)

\* lines 23-54
modular_exponentiation_host(base, exponent, modulus) ==
    IF modulus = 0 THEN 0
    ELSE IF modulus = 1 THEN 0
    ELSE IF exponent = 0 THEN 1
    ELSE IF base % modulus = 0 THEN 0
    ELSE HostModExpLoop(base % modulus, exponent, modulus, 1)

\* lines 307-383: the value of the `match operation` for parsed arguments
DispatchOf(op, a, elf) ==
    CASE op = "add" ->
            LET a_fixed == decimal_to_fixed_point(a[1].val)
                b_fixed == decimal_to_fixed_point(a[2].val)
            IN  Dispatched(StaticElf(ADDITION), StaticId(ADDITION), Some(a_fixed + b_fixed))
      [] op = "multiply" ->
            LET a_fixed == decimal_to_fixed_point(a[1].val)
                b_fixed == decimal_to_fixed_point(a[2].val)
            IN  Dispatched(StaticElf(MULTIPLY_GUEST), StaticId(MULTIPLY_GUEST),
                           Some(TruncDiv(a_fixed * b_fixed, SCALE)))
      [] op = "sqrt" ->
            \* expected_fixed comes from f64::sqrt and is never read afterwards
            Dispatched(StaticElf(SQRT_GUEST), StaticId(SQRT_GUEST), None)
      [] op = "modexp" ->
            Dispatched(StaticElf(MODEXP_GUEST), StaticId(MODEXP_GUEST),
                       Some(IF a[3].val = 0 THEN 0
                            ELSE IF a[3].val = 1 THEN 0
                            ELSE modular_exponentiation_host(a[1].val, a[2].val, a[3].val)))
      [] op = "range" ->
            Dispatched(StaticElf(GUEST_RANGE), StaticId(GUEST_RANGE),
                       Some(IF a[1].val >= a[2].val /\ a[1].val <= a[3].val THEN 1 ELSE 0))
      [] op = "authenticated_add" ->
            Dispatched(StaticElf(GUEST_AUTHENTICATED_ADD), StaticId(GUEST_AUTHENTICATED_ADD),
                       Some(a[1].val + a[2].val))
      [] op \in {"dynamic", "precompiled"} ->
            Dispatched(elf[1], ZERO_ID, Some(0))

\* the arguments the operation parses as numbers (`.parse().expect(..)` panics otherwise)
NumericArgs(op, a) ==
    CASE op \in {"add", "multiply"} -> {a[1], a[2]}
      [] op = "sqrt" -> {a[1]}
      [] op \in {"modexp", "range"} -> {a[1], a[2], a[3]}
      [] op = "authenticated_add" -> {a[1], a[2]}
      [] OTHER -> {}

\* lines 307-383
Dispatch ==
    /\ hpc = "dispatch"
    /\ IF operation \notin Operations
       THEN hpc' = "exit" /\ herr' = "Unknown operation" /\ UNCHANGED << dispatch, now >>
       ELSE IF \E x \in NumericArgs(operation, args) : ~x.ok
       THEN hpc' = "panic" /\ herr' = "argument must be a number"
            /\ UNCHANGED << dispatch, now >>
       ELSE /\ hpc' = "env"
            /\ herr' = herr
            /\ dispatch' = DispatchOf(operation, args, dynamic_elf_data)
            \* authenticated_add reads the clock for the task id of inputs_desc
            /\ IF operation = "authenticated_add"
               THEN \E t \in now..MaxClock : now' = t
               ELSE now' = now
    /\ UNCHANGED << operation, args, fsDirs, temp_dir, buildCalls, proveCalls,
                     dynamic_elf_data, env, receipt, committed, hostRecord,
                     actual_image_id, verifyCalls, is_verified, files, output, peer, guest,
                     verifierVars >>

Env(values, scale) == Some([values |-> values, scale |-> scale])

\* an ExecutorEnv whose task_id is built from another clock reading than the
\* timestamp it writes
EnvOf_TaskIdFromOtherReading(op, a, t) ==
    CASE op = "sqrt" -> Env(<< decimal_to_fixed_point(a[1].val) >>, SCALE)
      [] op \in {"add", "multiply"} ->
            Env(<< decimal_to_fixed_point(a[1].val), decimal_to_fixed_point(a[2].val) >>, SCALE)
      [] op \in {"modexp", "range"} -> Env(<< a[1].val, a[2].val, a[3].val >>, 1)
      [] op = "authenticated_add" ->
            Env(<< a[1].val, a[2].val, t, TaskId(t - 1, a[1].val, a[2].val, a[3]) >>, 1)
      [] op \in {"dynamic", "precompiled"} -> Env(<< a[2] >>, 1)

\* lines 393-462: the ExecutorEnv of an operation; t is the clock reading of
\* authenticated_add
EnvOf(op, a, t) ==
    CASE op = "sqrt" -> Env(<< decimal_to_fixed_point(a[1].val) >>, SCALE)
      [] op \in {"add", "multiply"} ->
            Env(<< decimal_to_fixed_point(a[1].val), decimal_to_fixed_point(a[2].val) >>, SCALE)
      [] op \in {"modexp", "range"} -> Env(<< a[1].val, a[2].val, a[3].val >>, 1)
      [] op = "authenticated_add" ->
            Env(<< a[1].val, a[2].val, t, TaskId(t, a[1].val, a[2].val, a[3]) >>, 1)
      [] op \in {"dynamic", "precompiled"} -> Env(<< a[2] >>, 1)

\* lines 390-463
BuildEnv ==
    /\ hpc = "env"
    /\ IF IsProvisioned(operation) /\ ~ValidJson(args[2])
       THEN hpc' = "error" /\ herr' = "Invalid JSON inputs" /\ UNCHANGED << env, now >>
       ELSE \E t \in now..MaxClock :
               /\ operation # "authenticated_add" => t = now
               /\ now' = t
               /\ env' = EnvOf(operation, args, t)
               /\ hpc' = "prove"
               /\ herr' = herr
    /\ UNCHANGED << operation, args, fsDirs, temp_dir, buildCalls, proveCalls,
                     dynamic_elf_data, dispatch, receipt, committed, hostRecord,
                     actual_image_id, verifyCalls, is_verified, files, output, peer, guest,
                     verifierVars >>

Committed(fields, scale) == Some([fields |-> fields, scale |-> scale])

\* what the execution program of a built-in operation computes from the values
\* it reads, and the scale its kernel works at
GuestRun(op, v) ==
    CASE op = "add" -> Committed(GuestAdd(v[1], v[2]), GUEST_ADD_SCALE)
      [] op = "multiply" -> Committed(GuestMultiply(v[1], v[2]), GUEST_MULTIPLY_SCALE)
      [] op = "sqrt" -> Committed(GuestSqrt(v[1]), GUEST_SQRT_SCALE)
      [] op = "modexp" -> Committed(GuestModexp(v[1], v[2], v[3]), 1)
      [] op = "range" -> Committed(GuestRange(v[1], v[2], v[3]), 1)
      [] op = "authenticated_add" -> Committed(GuestAuthenticatedAdd(v[1], v[2], v[3], v[4]), 1)

Receipt(image, journal, valid) == [image |-> image, journal |-> journal, valid |-> valid]

\* a prove step that issues the call a second time when the first fails
Prove_RetriesOnce ==
    /\ hpc = "prove"
    /\ proveCalls' = proveCalls + 1
    /\ \E ok \in BOOLEAN, valid \in BOOLEAN :
          IF ~ok
          THEN /\ valid
               /\ IF proveCalls = 0 THEN hpc' = "prove" /\ herr' = herr
                  ELSE hpc' = "error" /\ herr' = "proving failed"
               /\ UNCHANGED << receipt, committed >>
          ELSE /\ hpc' = "decode"
               /\ herr' = herr
               /\ IF IsProvisioned(operation)
                  THEN \E j \in DynamicJournals :
                          /\ receipt' = Some(Receipt(dispatch[1].elf_data, j, valid))
                          /\ committed' = committed
                  ELSE LET run == GuestRun(operation, env[1].values)
                       IN  /\ committed' = run
                           /\ receipt' = Some(Receipt(dispatch[1].elf_data,
                                                      Commit(operation, run[1].fields), valid))
    /\ UNCHANGED << operation, args, now, fsDirs, temp_dir, buildCalls, dynamic_elf_data,
                     dispatch, env, hostRecord, actual_image_id, verifyCalls, is_verified,
                     files, output, peer, guest, verifierVars >>

\* lines 465-473: prover.prove(env, elf_data)?
Prove ==
    /\ hpc = "prove"
    /\ proveCalls' = proveCalls + 1
    /\ \E ok \in BOOLEAN, valid \in BOOLEAN :
          IF ~ok
          THEN /\ valid
               /\ hpc' = "error" /\ herr' = "proving failed"
               /\ UNCHANGED << receipt, committed >>
          ELSE /\ hpc' = "decode"
               /\ herr' = herr
               /\ IF IsProvisioned(operation)
                  THEN \E j \in DynamicJournals :
                          /\ receipt' = Some(Receipt(dispatch[1].elf_data, j, valid))
                          /\ committed' = committed
                  ELSE LET run == GuestRun(operation, env[1].values)
                       IN  /\ committed' = run
                           /\ receipt' = Some(Receipt(dispatch[1].elf_data,
                                                      Commit(operation, run[1].fields), valid))
    /\ UNCHANGED << operation, args, now, fsDirs, temp_dir, buildCalls, dynamic_elf_data,
                     dispatch, env, hostRecord, actual_image_id, verifyCalls, is_verified,
                     files, output, peer, guest, verifierVars >>

\* lines 481-673
DecodeJournal ==
    /\ hpc = "decode"
    /\ LET r == HostDecode(operation, receipt[1].journal)
       IN  /\ hostRecord' = Some(r)
           /\ IF r.ok THEN hpc' = "resolve" /\ herr' = herr
              ELSE hpc' = "error" /\ herr' = r.err
    /\ UNCHANGED << operation, args, now, fsDirs, temp_dir, buildCalls, proveCalls,
                     dynamic_elf_data, dispatch, env, receipt, committed, actual_image_id,
                     verifyCalls, is_verified, files, output, peer, guest, verifierVars >>

\* the identifier chosen at dispatch used as it is, without the digest
ResolvedImageId_AsDispatched(op, elf_data, image_id) == image_id

\* lines 675-685: the identifier that is checked and reported
ResolvedImageId(op, elf_data, image_id) ==
    IF op = "dynamic" \/ op = "precompiled" THEN compute_image_id(elf_data) ELSE image_id

ResolveImageId ==
    /\ hpc = "resolve"
    /\ \E ok \in BOOLEAN :
          IF ~ok
          THEN /\ IsProvisioned(operation)
               /\ hpc' = "error" /\ herr' = "compute_image_id failed"
               /\ actual_image_id' = actual_image_id
          ELSE /\ hpc' = "verify"
               /\ herr' = herr
               /\ actual_image_id' =
                      Some(ResolvedImageId(operation, dispatch[1].elf_data, dispatch[1].image_id))
    /\ UNCHANGED << operation, args, now, fsDirs, temp_dir, buildCalls, proveCalls,
                     dynamic_elf_data, dispatch, env, receipt, committed, hostRecord,
                     verifyCalls, is_verified, files, output, peer, guest, verifierVars >>

\* lines 687-704: receipt.verify(actual_image_id); a failure is only printed
VerifyReceipt ==
    /\ hpc = "verify"
    /\ verifyCalls' = Append(verifyCalls, actual_image_id[1])
    /\ is_verified' = EngineVerify(receipt[1], actual_image_id[1])
    /\ hpc' = "save"
    /\ UNCHANGED << operation, args, herr, now, fsDirs, temp_dir, buildCalls, proveCalls,
                     dynamic_elf_data, dispatch, env, receipt, committed, hostRecord,
                     actual_image_id, files, output, peer, guest, verifierVars >>

ImageNames == << ADDITION, MULTIPLY_GUEST, SQRT_GUEST, MODEXP_GUEST, GUEST_RANGE,
                 GUEST_AUTHENTICATED_ADD, "guest_a", "guest_b" >>

\* bincode::serialize(&receipt): the proof part (seal soundness, image) and the journal
SerializeReceipt(r) ==
    << IF r.valid THEN 1 ELSE 0,
       (IF r.image.kind = "static" THEN 0 ELSE 128)
           + (CHOOSE i \in 1..Len(ImageNames) : ImageNames[i] = r.image.of) >>
        \o r.journal

\* line 735: format!("proof_{}_{}.bin", operation, timestamp)
ProofFilename(op, timestamp) ==
    Text(<<"p","r","o","o","f","_">>) \o OpText(op) \o <<95>> \o Digits(timestamp)
        \o Text(<<".","b","i","n">>)

\* std::fs::write(name, content) that succeeded
WriteFile(fs, name, content) ==
    { f \in fs : f.name # name } \cup { [name |-> name, content |-> content] }

\* lines 743-803: the JSON record printed on stdout
OutputRecord(timestamp, rec, rcpt, image_id, verified, proof_filename) ==
    [ timestamp |-> timestamp,
      result |-> rec.decimal_result,
      receipt_journal |-> rcpt.journal,
      image_id |-> image_id,
      verification_status |-> IF verified THEN "verified" ELSE "failed",
      proof_file_path |-> proof_filename,
      task_id |-> IF Len(rec.fields) = 5 /\ Len(rec.layout) = 5 /\ rec.layout[5] = "String"
                  THEN Some(rec.fields[5]) ELSE None,
      auth_timestamp |-> IF Len(rec.fields) = 5 /\ Len(rec.layout) = 5 /\ rec.layout[5] = "String"
                         THEN Some(rec.fields[4]) ELSE None ]

\* lines 717-805: save the proof (a failed write is only printed) and print the record
SaveAndEmit ==
    /\ hpc = "save"
    /\ \E t \in now..MaxClock, written \in BOOLEAN :
          LET proof_filename == ProofFilename(operation, t)
          IN  /\ now' = t
              /\ files' = IF written
                          THEN WriteFile(files, proof_filename, SerializeReceipt(receipt[1]))
                          ELSE files
              /\ output' = Some(OutputRecord(t, hostRecord[1], receipt[1], actual_image_id[1],
                                             is_verified, proof_filename))
    /\ hpc' = "done"
    /\ UNCHANGED << operation, args, herr, fsDirs, temp_dir, buildCalls, proveCalls,
                     dynamic_elf_data, dispatch, env, receipt, committed, hostRecord,
                     actual_image_id, verifyCalls, is_verified, peer, guest, verifierVars
                     >>

HostNext ==
    \/ CheckArity
    \/ ProvisionBuiltin
    \/ LoadPrecompiled
    \/ CreateTempDir
    \/ WriteProject
    \/ BuildGuest
    \/ Dispatch
    \/ BuildEnv
    \/ Prove
    \/ DecodeJournal
    \/ ResolveImageId
    \/ VerifyReceipt
    \/ SaveAndEmit

\* main has returned or the process has exited
HostEnded == hpc \in {"done", "error", "exit", "panic"}
(***************************************************************************)
(* Offline verifier  (verify/src/main.rs main)                             *)
(***************************************************************************)
VerifierInit ==
    /\ vArgs = None
    /\ vpc = "idle"
    /\ verr = ""
    /\ vOperation = ""
    /\ vImageId = None
    /\ vReceiptBytes = None
    /\ vReceipt = None
    /\ vRecord = None
    /\ vVerifyCalls = << >>

\* lines 33-58: the operation argument, or the operation guessed from the file name
DetectOperation(a) ==
    IF a.operation # None THEN a.operation[1]
    ELSE IF Contains(a.file, OpText("authenticated_add")) THEN "authenticated_add"
    ELSE IF Contains(a.file, OpText("multiply")) THEN "multiply"
    ELSE IF Contains(a.file, OpText("sqrt")) THEN "sqrt"
    ELSE IF Contains(a.file, OpText("modexp")) THEN "modexp"
    ELSE IF Contains(a.file, OpText("range")) THEN "range"
    ELSE IF Contains(a.file, OpText("precompiled")) THEN "precompiled"
    ELSE "add"

\* lines 60-68
\* a selection without the range arm: range falls to the addition identifier
SelectImageId_NoRangeArm(op) ==
    CASE op = "multiply" -> StaticId(MULTIPLY_GUEST)
      [] op = "sqrt" -> StaticId(SQRT_GUEST)
      [] op = "modexp" -> StaticId(MODEXP_GUEST)
      [] op = "authenticated_add" -> StaticId(GUEST_AUTHENTICATED_ADD)
      [] op = "precompiled" -> ZERO_ID
      [] OTHER -> StaticId(ADDITION)

SelectImageId(op) ==
    CASE op = "multiply" -> StaticId(MULTIPLY_GUEST)
      [] op = "sqrt" -> StaticId(SQRT_GUEST)
      [] op = "modexp" -> StaticId(MODEXP_GUEST)
      [] op = "range" -> StaticId(GUEST_RANGE)
      [] op = "authenticated_add" -> StaticId(GUEST_AUTHENTICATED_ADD)
      [] op = "precompiled" -> ZERO_ID
      [] OTHER -> StaticId(ADDITION)

\* the expected values a caller may pass
ExpectedValues == {6, 0}

\* lines 28-68: the verifier is run on the file the host reported
VerifierStart ==
    /\ hpc = "done"
    /\ vpc = "idle"
    /\ \E op \in {None} \cup { Some(o) : o \in Operations \cup UnknownOperations },
          e \in {None} \cup { Some(x) : x \in ExpectedValues } :
          LET a == [file |-> output[1].proof_file_path, expected |-> e, operation |-> op]
          IN  /\ vArgs' = Some(a)
              /\ vOperation' = DetectOperation(a)
              /\ vImageId' = Some(SelectImageId(DetectOperation(a)))
    /\ vpc' = "read"
    /\ UNCHANGED << hostVars, verr, vReceiptBytes, vReceipt, vRecord, vVerifyCalls, peer,
                     guest >>

HexDigit(n) == IF n < 10 THEN 48 + n ELSE 87 + n

\* hex::encode: two lowercase digits per byte
RECURSIVE HexEncode(_)
HexEncode(bytes) ==
    IF bytes = << >> THEN << >>
    ELSE << HexDigit(Head(bytes) \div 16), HexDigit(Head(bytes) % 16) >> \o HexEncode(Tail(bytes))

HexValue(c) ==
    IF c >= 48 /\ c <= 57 THEN c - 48
    ELSE IF c >= 97 /\ c <= 102 THEN c - 87
    ELSE IF c >= 65 /\ c <= 70 THEN c - 55
    ELSE -1

\* hex::decode: None for an odd length or a character that is no hex digit
HexDecode(text) ==
    IF Len(text) % 2 # 0 \/ \E i \in 1..Len(text) : HexValue(text[i]) < 0 THEN None
    ELSE Some([i \in 1..(Len(text) \div 2) |->
                  16 * HexValue(text[2 * i - 1]) + HexValue(text[2 * i])])

IsSpace(c) == c \in {32, 9, 10, 13}

\* str::trim
RECURSIVE TrimStart(_)
TrimStart(text) ==
    IF text # << >> /\ IsSpace(Head(text)) THEN TrimStart(Tail(text)) ELSE text

RECURSIVE TrimEnd(_)
TrimEnd(text) ==
    IF text # << >> /\ IsSpace(text[Len(text)])
    THEN TrimEnd(SubSeq(text, 1, Len(text) - 1)) ELSE text

Trim(text) == TrimEnd(TrimStart(text))

\* bincode::deserialize::<Receipt>: None when the bytes are no serialized receipt
DeserializeReceipt(bytes) ==
    IF Len(bytes) < 2 \/ bytes[1] \notin {0, 1}
       \/ (bytes[2] % 128) \notin 1..Len(ImageNames)
       \/ (bytes[2] >= 128) # ((bytes[2] % 128) > 6)
    THEN None
    ELSE Some(Receipt(IF bytes[2] >= 128 THEN BinaryElf(ImageNames[bytes[2] % 128])
                      ELSE StaticElf(ImageNames[bytes[2]]),
                      SubSeq(bytes, 3, Len(bytes)),
                      bytes[1] = 1))

\* a reader that hex-decodes the text as it is, without trimming it
ReadProofBytes_Untrimmed(file, content) ==
    IF EndsWith(file, Text(<<".","b","i","n">>)) THEN Some(content)
    ELSE HexDecode(content)

\* lines 74-94: the bytes of the proof file, read by its extension
ReadProofBytes(file, content) ==
    IF EndsWith(file, Text(<<".","b","i","n">>)) THEN Some(content)
    ELSE HexDecode(Trim(content))

\* lines 70-107
ReadProof ==
    /\ vpc = "read"
    /\ LET found == { f \in files : f.name = vArgs[1].file }
       IN  IF found = {}
           THEN /\ vpc' = "error" /\ verr' = "io error"
                /\ UNCHANGED << vReceiptBytes, vReceipt >>
           ELSE LET f == CHOOSE x \in found : TRUE
                    bytes == ReadProofBytes(f.name, f.content)
                    r == IF bytes = None THEN None ELSE DeserializeReceipt(bytes[1])
                IN  /\ vReceiptBytes' = bytes
                    /\ IF r = None
                       THEN vpc' = "error" /\ verr' = "decode error" /\ vReceipt' = vReceipt
                       ELSE vpc' = "extract" /\ verr' = verr /\ vReceipt' = r
    /\ UNCHANGED << hostVars, vArgs, vOperation, vImageId, vRecord, vVerifyCalls, peer,
                     guest >>

\* lines 109-242
ExtractResult ==
    /\ vpc = "extract"
    /\ LET r == VerifyDecode(vOperation, vReceipt[1].journal)
       IN  /\ vRecord' = Some(r)
           /\ IF r.ok THEN vpc' = "expected" /\ verr' = verr
              ELSE vpc' = "error" /\ verr' = r.err
    /\ UNCHANGED << hostVars, vArgs, vOperation, vImageId, vReceiptBytes, vReceipt,
                     vVerifyCalls, peer, guest >>

\* lines 244-251
ExpectedOk(expected, result) == expected = None \/ result = expected[1]

CheckExpected ==
    /\ vpc = "expected"
    /\ IF ExpectedOk(vArgs[1].expected, vRecord[1].result)
       THEN vpc' = "verify" /\ verr' = verr
       ELSE vpc' = "error" /\ verr' = "Result mismatch"
    /\ UNCHANGED << hostVars, vArgs, vOperation, vImageId, vReceiptBytes, vReceipt,
                     vRecord, vVerifyCalls, peer, guest >>

\* lines 258-265
VerifierImageId(op, image_id) == IF op = "precompiled" THEN ZERO_ID ELSE image_id

\* lines 267-281: whether the engine is asked at all
AsksEngine(op) == op # "precompiled"

\* lines 253-312
VerifyProof ==
    /\ vpc = "verify"
    /\ LET id == VerifierImageId(vOperation, vImageId[1])
           ok == IF AsksEngine(vOperation) THEN EngineVerify(vReceipt[1], id)
                 ELSE Len(vReceipt[1].journal) >= 8
       IN  /\ vVerifyCalls' = IF AsksEngine(vOperation) THEN Append(vVerifyCalls, id)
                              ELSE vVerifyCalls
           /\ IF ok THEN vpc' = "success" /\ verr' = verr
              ELSE vpc' = "error" /\ verr' = "Verification failed"
    /\ UNCHANGED << hostVars, vArgs, vOperation, vImageId, vReceiptBytes, vReceipt,
                     vRecord, peer, guest >>

VerifierNext ==
    \/ VerifierStart
    \/ ReadProof
    \/ ExtractResult
    \/ CheckExpected
    \/ VerifyProof

\* no second invocation
NoPeer == [pc |-> "absent", operation |-> "", temp_dir |-> None]

Init == HostInit /\ VerifierInit /\ peer = NoPeer /\ guest = None

Next == HostNext \/ VerifierNext

Spec == Init /\ [][Next]_vars

(***************************************************************************)
(* The two journal decoders applied to arbitrary journals                  *)
(***************************************************************************)
\* field values the execution programs commit
CodecFields(op) ==
    CASE op = "add" -> { GuestAdd(250000, 425000), GuestAdd(-30000, 2) }
      [] op = "multiply" -> { GuestMultiply(10000, -30000), GuestMultiply(25000, 2) }
      [] op = "sqrt" -> { GuestSqrt(25000), GuestSqrt(-30000) }
      [] op = "modexp" -> { GuestModexp(4, 13, 497), GuestModexp(10, 0, 5) }
      [] op = "range" -> { GuestRange(7, 1, 10), GuestRange(0, 1, 10), GuestRange(11, 8, 10) }
      [] op = "authenticated_add" ->
            { GuestAuthenticatedAdd(3, 4, 1, TaskId(1, 3, 4, Text(<<"k">>))),
              GuestAuthenticatedAdd(-2, 4, 2, << >>) }
      [] op \in {"dynamic", "precompiled"} -> { <<55>>, <<-6>> }

\* bytes that may follow, or stand in for, the committed fields
Fillers == { Zeros(MaxExtra), [i \in 1..MaxExtra |-> 255], [i \in 1..MaxExtra |-> i % 2] }

\* a committed journal followed by filler bytes, cut at any length
CodecJournals(op) ==
    UNION { { SubSeq(Commit(op, f) \o x, 1, n) : n \in 0..(Len(Commit(op, f)) + MaxExtra) } :
            <<f, x>> \in CodecFields(op) \X Fillers }

CodecElf(op) ==
    CASE op = "add" -> StaticElf(ADDITION)
      [] op = "multiply" -> StaticElf(MULTIPLY_GUEST)
      [] op = "sqrt" -> StaticElf(SQRT_GUEST)
      [] op = "modexp" -> StaticElf(MODEXP_GUEST)
      [] op = "range" -> StaticElf(GUEST_RANGE)
      [] op = "authenticated_add" -> StaticElf(GUEST_AUTHENTICATED_ADD)
      [] OTHER -> BinaryElf("guest_a")

CodecInit ==
    /\ operation \in Operations
    /\ args = << >>
    /\ hpc = "codec"
    /\ herr = ""
    /\ now = 1
    /\ fsDirs = {}
    /\ temp_dir = None
    /\ buildCalls = 0
    /\ proveCalls = 0
    /\ dynamic_elf_data = None
    /\ dispatch = None
    /\ env = None
    /\ receipt \in { Some(Receipt(CodecElf(operation), j, TRUE)) : j \in CodecJournals(operation) }
    /\ committed = None
    /\ hostRecord = None
    /\ actual_image_id = None
    /\ verifyCalls = << >>
    /\ is_verified = FALSE
    /\ files = {}
    /\ output = None
    /\ vArgs = None
    /\ vpc = "codec"
    /\ verr = ""
    /\ vOperation = operation
    /\ vImageId = None
    /\ vReceiptBytes = None
    /\ vReceipt = receipt
    /\ vRecord = None
    /\ vVerifyCalls = << >>
    /\ peer = NoPeer
    /\ guest = None

\* the host's journal extraction on the journal
CodecHostDecode ==
    /\ hpc = "codec"
    /\ hostRecord = None
    /\ hostRecord' = Some(HostDecode(operation, receipt[1].journal))
    /\ UNCHANGED << operation, args, hpc, herr, now, fsDirs, temp_dir, buildCalls,
                     proveCalls, dynamic_elf_data, dispatch, env, receipt, committed,
                     actual_image_id, verifyCalls, is_verified, files, output, peer, guest,
                     verifierVars >>

\* the verifier's journal extraction on the same operation and journal
CodecVerifyDecode ==
    /\ vpc = "codec"
    /\ vRecord = None
    /\ vRecord' = Some(VerifyDecode(vOperation, vReceipt[1].journal))
    /\ UNCHANGED << hostVars, vArgs, vpc, verr, vOperation, vImageId, vReceiptBytes,
                     vReceipt, vVerifyCalls, peer, guest >>

CodecNext == CodecHostDecode \/ CodecVerifyDecode

SpecCodec == CodecInit /\ [][CodecNext]_vars

(***************************************************************************)
(* Properties                                                              *)
(***************************************************************************)
Journal == receipt[1].journal

HostDecodedOk == hostRecord # None /\ hostRecord[1].ok

VerifierDecodedOk == vRecord # None /\ vRecord[1].ok

\* C1: for every operation the host can prove and every journal, the verifier's
\* decoder applied to the same operation and journal fails exactly when the
\* host's decoder fails, and where the host decodes it uses the same field
\* order, widths and types and yields the same field values.
C1_VerifierDecodesAsHost ==
    (hostRecord # None /\ vRecord # None /\ vOperation = operation
        /\ vReceipt[1].journal = Journal)
    => /\ vRecord[1].ok = hostRecord[1].ok
       /\ hostRecord[1].ok
            => /\ vRecord[1].layout = hostRecord[1].layout
               /\ vRecord[1].fields = hostRecord[1].fields

\* C2: the verifier reports success only after one engine verify call that
\* returned Ok for the image identifier of the program that produced the proof,
\* never without an engine call and never against the all-zero placeholder.
C2_SuccessOnlyByEngineVerify ==
    vpc = "success"
    => /\ Len(vVerifyCalls) = 1
       /\ vVerifyCalls[1] # ZERO_ID
       /\ vVerifyCalls[1] = ImageIdOf(vReceipt[1].image)
       /\ EngineVerify(vReceipt[1], vVerifyCalls[1])

\* C3: in the host, for dynamic and precompiled, the identifier is resolved only
\* after the one prove call has returned a receipt, the identifier passed to
\* verify is the digest of exactly the bytes handed to prove, and the all-zero
\* placeholder is neither passed to verify nor emitted as image_id.
C3_IdentifierIsDigestOfProvedBytes ==
    IsProvisioned(operation)
    => /\ actual_image_id # None
            => /\ proveCalls = 1
               /\ receipt # None
               /\ actual_image_id[1] = compute_image_id(receipt[1].image)
       /\ \A i \in DOMAIN verifyCalls :
            /\ verifyCalls[i] = compute_image_id(receipt[1].image)
            /\ verifyCalls[i] # ZERO_ID
       /\ output # None
            => /\ output[1].image_id = compute_image_id(receipt[1].image)
               /\ output[1].image_id # ZERO_ID

\* a precompiled invocation that proved, verified against the digest and
\* printed its record
C3_Witness ==
    /\ operation = "precompiled"
    /\ output # None
    /\ Len(verifyCalls) = 1
    /\ is_verified
    /\ output[1].image_id = [kind |-> "digest", of |-> "guest_b"]

\* C4: for the dynamic operation, once the temporary build directory has been
\* created it no longer exists when the invocation has ended, whichever way it
\* ended.
C4_TempDirRemovedOnEveryExit ==
    (operation = "dynamic" /\ temp_dir # None /\ HostEnded) => temp_dir[1] \notin fsDirs

\* C5: for add, multiply and sqrt the scale the host encodes the arguments with,
\* the scale of the operation's guest kernel, and the scale the host and the
\* verifier decode the journal result with are one value.
C5_OneScalePerOperation ==
    (operation \in {"add", "multiply", "sqrt"} /\ HostDecodedOk)
    => /\ committed[1].scale = env[1].scale
       /\ hostRecord[1].decimal_result.den = env[1].scale
       /\ (VerifierDecodedOk /\ vOperation = operation)
            => vRecord[1].decimal_result.den = env[1].scale

\* C6: for multiply, the result field of the journal is
\* (to_fixed(a) * to_fixed(b)) / scale, truncated toward zero, at the scale the
\* host encoded a and b with: the host's own expected_fixed.
C6_MultiplyResultIsExpectedFixed ==
    (operation = "multiply" /\ HostDecodedOk)
    => /\ hostRecord[1].fields[3] =
            W(TruncDiv(decimal_to_fixed_point(args[1].val)
                           * decimal_to_fixed_point(args[2].val), SCALE))
       /\ hostRecord[1].fields[3] = W(dispatch[1].expected[1])

\* the sum of the field widths of an operation's journal layout; for
\* authenticated_add the four 64-bit fields and the length word of task_id
DeclaredWidth(op) ==
    CASE op \in {"add", "multiply"} -> 8 + 8 + 8
      [] op = "sqrt" -> 8 + 8
      [] op = "modexp" -> 8 + 8 + 8 + 8
      [] op = "range" -> 4 + 4 + 4 + 8 + 8
      [] op = "authenticated_add" -> 8 + 8 + 8 + 8 + 4
      [] op \in {"dynamic", "precompiled"} -> 8

FixedWidthOperations == Operations \ {"authenticated_add"}

\* C7: for every operation, in the host and in the verifier, decoding a journal
\* shorter than the sum of the operation's field widths ends in an error and
\* yields no field values.
C7_ShortJournalIsError ==
    /\ (hostRecord # None /\ Len(Journal) < DeclaredWidth(operation))
         => ~hostRecord[1].ok
    /\ (vRecord # None /\ vOperation \in Operations
            /\ Len(vReceipt[1].journal) < DeclaredWidth(vOperation))
         => ~vRecord[1].ok

\* C8: for a fixed-width layout a journal whose length differs from
\* the layout total, a longer one included, is an error: a journal decodes only
\* at exactly the layout total (host; verifier for precompiled).
C8_AnyLengthMismatchIsError ==
    /\ (HostDecodedOk /\ operation \in FixedWidthOperations)
         => Len(Journal) = DeclaredWidth(operation)
    /\ (VerifierDecodedOk /\ vOperation = "precompiled")
         => Len(vReceipt[1].journal) = DeclaredWidth(vOperation)

\* the committed fields as the decoders present them
CommittedWords(op, f) ==
    IF op = "range" THEN << f[1], f[2], f[3], W(f[4]), W(f[5]) >>
    ELSE [i \in DOMAIN f |-> W(f[i])]

\* C9: for add, multiply, sqrt, modexp and range, the journal the guest commits
\* (64-bit fields as 8 little-endian bytes, booleans as 4-byte words, in commit
\* order) decodes in the host to exactly the committed field values, in order.
C9_CommitDecodeRoundTrip ==
    (operation \in {"add", "multiply", "sqrt", "modexp", "range"} /\ hostRecord # None)
    => /\ Journal = Commit(operation, committed[1].fields)
       /\ Len(Journal) = DeclaredWidth(operation)
       /\ hostRecord[1].ok
       /\ hostRecord[1].fields = CommittedWords(operation, committed[1].fields)

\* a range proof of a secret above the maximum, decoded by the host
C9_Witness ==
    /\ operation = "range"
    /\ HostDecodedOk
    /\ hostRecord[1].fields = << FALSE, TRUE, FALSE, W(8), W(10) >>

\* C10: for every known operation, an invocation whose argument count differs
\* from the operation's arity ends with the usage error, and no build toolchain
\* call and no prove call is made.
C10_ArityErrorBeforeBuildOrProve ==
    (operation \in Operations /\ Len(args) # Arity(operation) /\ hpc # "start")
    => /\ hpc = "exit"
       /\ herr = "Usage"
       /\ temp_dir = None
       /\ buildCalls = 0
       /\ proveCalls = 0

\* a dynamic invocation with three arguments that has exited
C10_Witness ==
    /\ operation = "dynamic"
    /\ Len(args) = 3
    /\ hpc = "exit"
    /\ herr = "Usage"

(***************************************************************************)
(* Saving a proof and loading it again                                     *)
(* (host/src/main.rs:728-741, risc0-addition/host/src/main.rs:119-128,     *)
(*  verify/src/main.rs:70-102)                                             *)
(***************************************************************************)
\* the integer arguments that name a hex artifact
HexFileArgs == { <<3, 2>>, <<-1, 15>> }

\* risc0-addition host, line 124: format!("proof_{}_{}_{}.hex", operation, a, b)
HexProofFilename(op, a, b) ==
    Text(<<"p","r","o","o","f","_">>) \o OpText(op) \o <<95>> \o Display(a) \o <<95>>
        \o Display(b) \o Text(<<".","h","e","x">>)

\* whitespace a text file may carry around its content
Paddings == { << <<10>>, << >> >>, << <<32>>, <<13, 10>> >>, << << >>, <<10>> >> }

ArtifactInit ==
    /\ operation \in Operations
    /\ args = << >>
    /\ hpc = "artifact"
    /\ herr = ""
    /\ now = 1
    /\ fsDirs = {}
    /\ temp_dir = None
    /\ buildCalls = 0
    /\ proveCalls = 0
    /\ dynamic_elf_data = None
    /\ dispatch = None
    /\ env = None
    /\ receipt \in { Some(Receipt(CodecElf(operation), j, TRUE)) : j \in CodecJournals(operation) }
    /\ committed = None
    /\ hostRecord = None
    /\ actual_image_id = None
    /\ verifyCalls = << >>
    /\ is_verified = FALSE
    /\ files = {}
    /\ output = None
    /\ VerifierInit
    /\ peer = NoPeer
    /\ guest = None

\* host/src/main.rs:730-739: the serialized receipt written as it is
SaveBinary ==
    /\ hpc = "artifact"
    /\ files' = WriteFile(files, ProofFilename(operation, now), SerializeReceipt(receipt[1]))
    /\ hpc' = "saved"
    /\ UNCHANGED << operation, args, herr, now, fsDirs, temp_dir, buildCalls, proveCalls,
                     dynamic_elf_data, dispatch, env, receipt, committed, hostRecord,
                     actual_image_id, verifyCalls, is_verified, output, peer, guest,
                     verifierVars >>

\* risc0-addition/host/src/main.rs:119-128: the serialized receipt written as
\* lowercase hex text
SaveHex ==
    /\ hpc = "artifact"
    /\ operation \in {"add", "multiply"}
    /\ \E ab \in HexFileArgs :
          files' = WriteFile(files, HexProofFilename(operation, ab[1], ab[2]),
                             HexEncode(SerializeReceipt(receipt[1])))
    /\ hpc' = "saved"
    /\ UNCHANGED << operation, args, herr, now, fsDirs, temp_dir, buildCalls, proveCalls,
                     dynamic_elf_data, dispatch, env, receipt, committed, hostRecord,
                     actual_image_id, verifyCalls, is_verified, output, peer, guest,
                     verifierVars >>

\* a hex artifact stored again with whitespace around its text
PadHexFile ==
    /\ hpc = "saved"
    /\ \E f \in files, p \in Paddings :
          /\ EndsWith(f.name, Text(<<".","h","e","x">>))
          /\ files' = WriteFile(files, f.name, p[1] \o f.content \o p[2])
    /\ hpc' = "padded"
    /\ UNCHANGED << operation, args, herr, now, fsDirs, temp_dir, buildCalls, proveCalls,
                     dynamic_elf_data, dispatch, env, receipt, committed, hostRecord,
                     actual_image_id, verifyCalls, is_verified, output, peer, guest,
                     verifierVars >>

\* verify/src/main.rs:28-68: the verifier is given the artifact's path
LoadStart ==
    /\ hpc \in {"saved", "padded"}
    /\ vpc = "idle"
    /\ \E f \in files :
          LET a == [file |-> f.name, expected |-> None, operation |-> None]
          IN  /\ vArgs' = Some(a)
              /\ vOperation' = DetectOperation(a)
              /\ vImageId' = Some(SelectImageId(DetectOperation(a)))
    /\ vpc' = "read"
    /\ UNCHANGED << hostVars, verr, vReceiptBytes, vReceipt, vRecord, vVerifyCalls, peer,
                     guest >>

ArtifactNext == SaveBinary \/ SaveHex \/ PadHexFile \/ LoadStart \/ ReadProof

SpecArtifact == ArtifactInit /\ [][ArtifactNext]_vars

\* C16: loading the file written by save returns exactly the bytes of the
\* serialized proof: a .bin file verbatim, a .hex file by decoding its hex text
\* with the whitespace around it dropped, the form being chosen by the file
\* extension.
C16_LoadReturnsSavedBytes ==
    (hpc \in {"saved", "padded"} /\ vpc \notin {"idle", "read"})
    => /\ vReceiptBytes = Some(SerializeReceipt(receipt[1]))
       /\ vReceipt = receipt
       /\ vpc = "extract"

\* a hex artifact with a line end after its text, loaded
C16_Witness ==
    /\ hpc = "padded"
    /\ vpc = "extract"
    /\ \E f \in files :
          /\ f.name = vArgs[1].file
          /\ EndsWith(f.name, Text(<<".","h","e","x">>))
          /\ f.content[Len(f.content)] = 10
          /\ Len(f.content) > 2 * Len(vReceiptBytes[1])
    /\ Len(vReceipt[1].journal) >= 24

\* C11: an operation name that is not a supported operation fails with the
\* unknown-operation error: in the host (once its argument count is accepted)
\* without any prove call, in the verifier
\* without an identifier chosen or a journal decoded; it is never run as another
\* operation.
C11_UnknownOperationRejected ==
    /\ (operation \in UnknownOperations /\ HostEnded)
         => /\ hpc = "exit"
            /\ proveCalls = 0
            /\ ArgLenOk(operation, Len(args) + 2) => herr = "Unknown operation"
    /\ (vArgs # None /\ vOperation \notin Operations)
         => /\ vpc = "error"
            /\ verr = "Unknown operation"
            /\ vImageId = None
            /\ vRecord = None

\* C12: when the engine's verify call returns an error the invocation ends in
\* an error: the host writes no proof artifact and prints no record, the
\* verifier returns the verification error.
C12_VerifyErrorIsFatal ==
    /\ (HostEnded /\ Len(verifyCalls) = 1 /\ ~EngineVerify(receipt[1], verifyCalls[1]))
         => /\ hpc = "error"
            /\ files = {}
            /\ output = None
    /\ (vpc # "verify" /\ Len(vVerifyCalls) = 1
            /\ ~EngineVerify(vReceipt[1], vVerifyCalls[1]))
         => /\ vpc = "error"
            /\ verr = "Verification failed"

\* C13: the host's steps occur in the order validate, build, prove, decode,
\* persist: the build toolchain is invoked only when every argument, the JSON
\* inputs included, is valid; the journal is decoded only after the one prove
\* call returned a receipt; the artifact is written only after decoding
\* succeeded.
C13_ValidateBuildProveDecodePersist ==
    /\ buildCalls > 0
         => /\ operation = "dynamic"
            /\ Len(args) = Arity(operation)
            /\ ValidJson(args[2])
    /\ proveCalls > 0 => (operation = "dynamic" => buildCalls = 1)
    /\ hostRecord # None => (proveCalls = 1 /\ receipt # None)
    /\ files # {} => HostDecodedOk

\* C17: when writing the proof artifact fails the invocation does not end
\* successfully: a host that ended with a printed record has written, whole, the
\* file its proof_file_path names.
C17_RecordNamesWrittenFile ==
    (hpc = "done" \/ output # None)
    => /\ output # None
       /\ [name |-> output[1].proof_file_path, content |-> SerializeReceipt(receipt[1])]
              \in files

\* C18: the verifier, run without an operation argument on the artifact the
\* host saved, detects from the file name the operation the host proved.
C18_FilenameDetectsOperation ==
    (vArgs # None /\ vArgs[1].operation = None) => vOperation = operation

\* C19: for authenticated_add with arguments a, b and key reference k the
\* journal decodes to (a, b, a + b, timestamp, task_id) with task_id the text
\* auth_<timestamp>_<a>_<b>_<k> for the committed timestamp, and the record
\* printed reports the committed task_id and timestamp.
C19_AuthenticatedAddRecord ==
    (operation = "authenticated_add" /\ hostRecord # None)
    => /\ hostRecord[1].ok
       /\ LET f == hostRecord[1].fields
              a == args[1].val
              b == args[2].val
          IN  /\ Len(f) = 5
              /\ f[1] = W(a) /\ f[2] = W(b) /\ f[3] = W(a + b)
              /\ ~IsWide(f[4])
              /\ f[5] = Text(<<"a","u","t","h","_">>) \o Digits(f[4].int) \o Text(<<"_">>)
                            \o Display(a) \o Text(<<"_">>) \o Display(b) \o Text(<<"_">>)
                            \o args[3]
              /\ output # None
                   => /\ output[1].task_id = Some(f[5])
                      /\ output[1].auth_timestamp = Some(f[4])

\* an authenticated addition of -2 and 4 whose clock moved between dispatch and
\* the executor environment, printed
C19_Witness ==
    /\ operation = "authenticated_add"
    /\ output # None
    /\ args[1].val = -2
    /\ output[1].auth_timestamp = Some(W(MaxClock))
    /\ hostRecord[1].fields[3] = W(2)

\* C21: in the verifier a decoded result that differs from the expected value
\* the caller supplied does not by itself end the run: a run whose journal was
\* decoded ends in an error only by the cryptographic verification of the proof.
C21_MismatchDoesNotEndRun ==
    (VerifierDecodedOk /\ vpc = "error")
    => /\ verr = "Verification failed"
       /\ (AsksEngine(vOperation) => vVerifyCalls # << >>)

BuiltinOperations == {"add", "multiply", "sqrt", "modexp", "range", "authenticated_add"}

\* the guest crate each built-in operation is named after
StaticNameOf(op) ==
    CASE op = "add" -> "ADDITION"
      [] op = "multiply" -> "MULTIPLY_GUEST"
      [] op = "sqrt" -> "SQRT_GUEST"
      [] op = "modexp" -> "MODEXP_GUEST"
      [] op = "range" -> "GUEST_RANGE"
      [] op = "authenticated_add" -> "GUEST_AUTHENTICATED_ADD"

\* C22: for every built-in operation the image the host proves and the
\* identifier it verifies against are the static pair of that operation,
\* resolved with no directory, build or file read, and the verifier maps the
\* operation name to the same identifier.
C22_BuiltinUsesItsStaticPair ==
    operation \in BuiltinOperations
    => LET name == StaticNameOf(operation)
       IN  /\ dispatch # None
              => /\ dispatch[1].elf_data = StaticElf(name)
                 /\ dispatch[1].image_id = StaticId(name)
                 /\ buildCalls = 0 /\ temp_dir = None /\ fsDirs = {}
                 /\ dynamic_elf_data = None
           /\ receipt # None => receipt[1].image = StaticElf(name)
           /\ \A i \in 1..Len(verifyCalls) : verifyCalls[i] = StaticId(name)
           /\ (vImageId # None /\ vOperation = operation)
              => vImageId = Some(StaticId(name))
           /\ vOperation = operation
              => \A i \in 1..Len(vVerifyCalls) : vVerifyCalls[i] = StaticId(name)

\* a range proof the host proved and verified, verified again by the verifier
\* under the operation name range
C22_Witness ==
    /\ operation = "range"
    /\ verifyCalls = << StaticId("GUEST_RANGE") >>
    /\ vOperation = "range"
    /\ vpc = "success"
    /\ vVerifyCalls = << StaticId("GUEST_RANGE") >>

(***************************************************************************)
(* The fixed-point codec on its own: a decimal converted at one of the     *)
(* program's scales and converted back                                     *)
(***************************************************************************)
\* the largest decimal drawn, in units of 1/DecUnit
MaxDecimal == 150

\* host/src/main.rs:10 and the guests' SCALE (guest-multiply, guest-sqrt :9)
FixedScales == {GUEST_MULTIPLY_SCALE, SCALE}

FixedInit ==
    /\ operation = "add"
    /\ args \in { << Num(d) >> : d \in (-MaxDecimal)..MaxDecimal }
    /\ hpc = "decimal"
    /\ herr = ""
    /\ now = 1
    /\ fsDirs = {}
    /\ temp_dir = None
    /\ buildCalls = 0
    /\ proveCalls = 0
    /\ dynamic_elf_data = None
    /\ dispatch = None
    /\ env = None
    /\ receipt = None
    /\ committed = None
    /\ hostRecord = None
    /\ actual_image_id = None
    /\ verifyCalls = << >>
    /\ is_verified = FALSE
    /\ files = {}
    /\ output = None
    /\ VerifierInit
    /\ peer = NoPeer
    /\ guest = None

\* host/src/main.rs:12-15: decimal_to_fixed_point at the scale s
EncodeFixed ==
    /\ hpc = "decimal"
    /\ \E s \in FixedScales : env' = Env(<< ToFixed(args[1].val, s) >>, s)
    /\ hpc' = "fixed"
    /\ UNCHANGED << operation, args, herr, now, fsDirs, temp_dir, buildCalls, proveCalls,
                     dynamic_elf_data, dispatch, receipt, committed, hostRecord,
                     actual_image_id, verifyCalls, is_verified, files, output, peer, guest,
                     verifierVars >>

\* host/src/main.rs:17-20: fixed_point_to_decimal at the same scale
DecodeFixed ==
    /\ hpc = "fixed"
    /\ hostRecord' = Some(FromFixed(env[1].values[1], env[1].scale))
    /\ hpc' = "decimal again"
    /\ UNCHANGED << operation, args, herr, now, fsDirs, temp_dir, buildCalls, proveCalls,
                     dynamic_elf_data, dispatch, env, receipt, committed, actual_image_id,
                     verifyCalls, is_verified, files, output, peer, guest, verifierVars >>

FixedNext == EncodeFixed \/ DecodeFixed

SpecFixed == FixedInit /\ [][FixedNext]_vars

Abs(x) == IF x < 0 THEN -x ELSE x

C24_AddJournalAndResult ==
    (operation = "add" /\ hostRecord # None)
    => LET a == args[1].val
           b == args[2].val
           a_fixed == ToFixed(a, 100000)
           b_fixed == ToFixed(b, 100000)
           rec == hostRecord[1]
       IN  /\ rec.ok
           /\ rec.fields = << W(a_fixed), W(b_fixed), W(a_fixed + b_fixed) >>
           /\ rec.decimal_result = [num |-> W(a_fixed + b_fixed), den |-> 100000]
           /\ (a = 2500000 /\ b = 4250000)
              => /\ rec.fields = << W(250000), W(425000), W(675000) >>
                 /\ rec.decimal_result.num.int * 100 = 675 * rec.decimal_result.den

\* the scenario 2.5 + 4.25, decoded
C24_Witness ==
    /\ operation = "add"
    /\ hostRecord # None
    /\ args[1].val = 2500000
    /\ args[2].val = 4250000
    /\ hostRecord[1].fields[3] = W(675000)

\* base^exponent mod modulus by one multiplication per unit of the exponent
RECURSIVE PowerMod(_, _, _)
PowerMod(base, exponent, modulus) ==
    IF exponent = 0 THEN 1 % modulus
    ELSE ((base % modulus) * PowerMod(base, exponent - 1, modulus)) % modulus

\* C25: for modexp the journal decodes to (base, exponent, modulus, r) with
\* r = base^exponent mod modulus when modulus >= 2 and r = 0 when modulus is 0
\* or 1, and the host's modular_exponentiation_host gives the same r; for
\* (4, 13, 497) r is 445.
C25_ModexpJournal ==
    (operation = "modexp" /\ hostRecord # None)
    => LET base == args[1].val
           exponent == args[2].val
           modulus == args[3].val
           r == IF modulus >= 2 THEN PowerMod(base, exponent, modulus) ELSE 0
       IN  /\ hostRecord[1].ok
           /\ hostRecord[1].fields = << W(base), W(exponent), W(modulus), W(r) >>
           /\ dispatch[1].expected = Some(r)
           /\ modular_exponentiation_host(base, exponent, modulus) = r
           /\ (base = 4 /\ exponent = 13 /\ modulus = 497) => r = 445

\* the scenario 4^13 mod 497, decoded
C25_Witness ==
    /\ operation = "modexp"
    /\ hostRecord # None
    /\ args = << Num(4), Num(13), Num(497) >>
    /\ hostRecord[1].fields[4] = W(445)

\* C26: for range with secret, min and max the journal decodes to
\* (in_range, above_min, below_max, min, max) with above_min = (secret >= min),
\* below_max = (secret <= max), in_range = above_min and below_max, and the
\* bounds as supplied; for secret 7, min 1, max 10 it is (true, true, true, 1, 10).
C26_RangeJournal ==
    (operation = "range" /\ hostRecord # None)
    => LET secret == args[1].val
           min == args[2].val
           max == args[3].val
           f == hostRecord[1].fields
       IN  /\ hostRecord[1].ok
           /\ Len(f) = 5
           /\ f[2] = (secret >= min)
           /\ f[3] = (secret <= max)
           /\ f[1] = (f[2] /\ f[3])
           /\ f[4] = W(min) /\ f[5] = W(max)
           /\ (secret = 7 /\ min = 1 /\ max = 10)
              => f = << TRUE, TRUE, TRUE, W(1), W(10) >>

\* a secret on the upper bound, decoded as in range
C26_Witness ==
    /\ operation = "range"
    /\ hostRecord # None
    /\ args = << Num(10), Num(8), Num(10) >>
    /\ hostRecord[1].fields = << TRUE, TRUE, TRUE, W(8), W(10) >>

\* C27: within one invocation the build toolchain is invoked at most once and
\* the prove call is issued at most once; after a build failure or a proving
\* failure the invocation has ended in an error with no further build or prove
\* call made.
C27_NoRetryOfBuildOrProve ==
    /\ buildCalls <= 1
    /\ proveCalls <= 1
    /\ herr \in {"Dynamic guest program compilation failed", "Built ELF file not found"}
       => hpc = "error" /\ buildCalls = 1 /\ proveCalls = 0
    /\ (buildCalls = 1 /\ dynamic_elf_data = None)
       => hpc = "error" /\ proveCalls = 0
    /\ herr = "proving failed"
       => hpc = "error" /\ proveCalls = 1 /\ receipt = None

\* a dynamic invocation whose one build succeeded and whose one prove call failed
C27_Witness ==
    /\ operation = "dynamic"
    /\ buildCalls = 1
    /\ proveCalls = 1
    /\ hpc = "error"
    /\ herr = "proving failed"

\* C28: in the verifier the check against the expected value the caller
\* supplied succeeds exactly when that value equals the result decoded from the
\* journal (the decimal result, the u64 result, the i64 result), so narrowing
\* to 32 bits never lets a different result pass.
C28_ExpectedCheckIsExact ==
    (VerifierDecodedOk /\ vArgs[1].expected # None /\ vpc \in {"verify", "success", "error"})
    => LET expected == vArgs[1].expected[1]
           decoded == vRecord[1].decimal_result
           passed == ~(vpc = "error" /\ verr = "Result mismatch")
       IN  passed <=> (decoded.num = W(expected * decoded.den))

(***************************************************************************)
(* fixed_point_sqrt over the whole i64 range.  A 64-bit magnitude is a     *)
(* sequence of 15-bit digits, least significant first, without leading     *)
(* zero digits; the empty sequence is 0.                                   *)
(***************************************************************************)
\* 2^15: the product of two digits stays within the model's integers
Limb == 32768

RECURSIVE BigOfInt(_)
BigOfInt(n) == IF n = 0 THEN << >> ELSE << n % Limb >> \o BigOfInt(n \div Limb)

RECURSIVE BigNorm(_)
BigNorm(a) ==
    IF a # << >> /\ a[Len(a)] = 0 THEN BigNorm(SubSeq(a, 1, Len(a) - 1)) ELSE a

BigRest(a) == IF a = << >> THEN << >> ELSE Tail(a)

BigLow(a) == IF a = << >> THEN 0 ELSE Head(a)

RECURSIVE BigAddCarry(_, _, _)
BigAddCarry(a, b, carry) ==
    IF a = << >> /\ b = << >> THEN (IF carry = 0 THEN << >> ELSE << carry >>)
    ELSE LET x == BigLow(a) + BigLow(b) + carry
         IN  << x % Limb >> \o BigAddCarry(BigRest(a), BigRest(b), x \div Limb)

BigAdd(a, b) == BigAddCarry(a, b, 0)

\* a - b for a >= b
RECURSIVE BigSubBorrow(_, _, _)
BigSubBorrow(a, b, borrow) ==
    IF a = << >> THEN << >>
    ELSE LET x == (Head(a) - BigLow(b)) - borrow
         IN  << (x + Limb) % Limb >>
                 \o BigSubBorrow(Tail(a), BigRest(b), IF x < 0 THEN 1 ELSE 0)

BigSub(a, b) == BigNorm(BigSubBorrow(a, b, 0))

\* a * d for one digit d
RECURSIVE BigMulDigit(_, _, _)
BigMulDigit(a, d, carry) ==
    IF a = << >> THEN (IF carry = 0 THEN << >> ELSE << carry >>)
    ELSE LET x == Head(a) * d + carry
         IN  << x % Limb >> \o BigMulDigit(Tail(a), d, x \div Limb)

RECURSIVE BigMul(_, _)
BigMul(a, b) ==
    IF a = << >> \/ b = << >> THEN << >>
    ELSE LET high == BigMul(a, Tail(b))
         IN  BigNorm(BigAdd(BigMulDigit(a, Head(b), 0),
                            IF high = << >> THEN << >> ELSE << 0 >> \o high))

\* the quotient of a by d, 0 < d < Limb, digits from the most significant down
RECURSIVE BigDivDigits(_, _, _)
BigDivDigits(a, d, rem) ==
    IF a = << >> THEN << >>
    ELSE LET cur == rem * Limb + a[Len(a)]
         IN  BigDivDigits(SubSeq(a, 1, Len(a) - 1), d, cur % d) \o << cur \div d >>

BigDiv(a, d) == BigNorm(BigDivDigits(a, d, 0))

BigLess(a, b) ==
    \/ Len(a) < Len(b)
    \/ /\ Len(a) = Len(b)
       /\ \E i \in 1..Len(a) : a[i] < b[i] /\ \A j \in (i + 1)..Len(a) : a[j] = b[j]

\* i64::MAX = 2^63 - 1: four full digits and three more bits
I64Max == << Limb - 1, Limb - 1, Limb - 1, Limb - 1, 7 >>

\* the low 64 bits of a product: its first four digits and four bits of the fifth
WrapU64(p) ==
    BigNorm([i \in 1..5 |-> IF i > Len(p) THEN 0 ELSE IF i = 5 THEN p[i] % 16 ELSE p[i]])

\* 2^64 - low for 2^63 <= low < 2^64: the magnitude of low read as an i64
NegMagnitude(low) ==
    BigNorm(BigAdd([i \in 1..5 |-> IF i = 5 THEN 15 - low[i] ELSE (Limb - 1) - low[i]],
                   << 1 >>))

\* methods/guest-sqrt/src/main.rs:48: (mid * mid) / SCALE in i64.  A product
\* beyond i64::MAX wraps to its low 64 bits, read as a signed value.
MidSquared(mid) ==
    LET product == BigMul(mid, mid)
        overflow == BigLess(I64Max, product)
        low == IF overflow THEN WrapU64(product) ELSE product
        negative == BigLess(I64Max, low)
    IN  [overflow |-> overflow,
         negative |-> negative,
         mag |-> IF negative THEN BigDiv(NegMagnitude(low), GUEST_SQRT_SCALE)
                 ELSE BigDiv(low, GUEST_SQRT_SCALE)]

\* how many inputs from SCALE upwards are drawn one by one
MaxSqrtSpan == 100

I64(neg, mag) == [neg |-> neg, mag |-> mag]

\* decimal_to_fixed_point of a whole number: decimal * SCALE (host/src/main.rs:13)
WholeToFixed(decimal) == BigMul(BigOfInt(decimal), BigOfInt(SCALE))

\* the inputs of the sqrt guest: -0.03 and 0, 0.04 (below the guest's SCALE),
\* every value from SCALE to SCALE + MaxSqrtSpan, and what the host sends for
\* sqrt 10, sqrt 1234, sqrt 60740 (the largest whole number whose search stays
\* within i64), sqrt 60741, sqrt 100000, and i64::MAX
SqrtInputs ==
    { I64(TRUE, BigOfInt(3000)), I64(FALSE, << >>), I64(FALSE, BigOfInt(4000)) }
    \cup { I64(FALSE, BigOfInt(GUEST_SQRT_SCALE + k)) : k \in 0..MaxSqrtSpan }
    \cup { I64(FALSE, WholeToFixed(d)) : d \in {10, 1234, 60740, 60741, 100000} }
    \cup { I64(FALSE, I64Max) }

SqrtInit ==
    /\ operation = "sqrt"
    /\ args = << >>
    /\ hpc = "guest"
    /\ herr = ""
    /\ now = 1
    /\ fsDirs = {}
    /\ temp_dir = None
    /\ buildCalls = 0
    /\ proveCalls = 0
    /\ dynamic_elf_data = None
    /\ dispatch = None
    /\ env \in { Env(<< n >>, SCALE) : n \in SqrtInputs }
    /\ receipt = None
    /\ committed = None
    /\ hostRecord = None
    /\ actual_image_id = None
    /\ verifyCalls = << >>
    /\ is_verified = FALSE
    /\ files = {}
    /\ output = None
    /\ VerifierInit
    /\ peer = NoPeer
    /\ guest = None

\* methods/guest-sqrt/src/main.rs:25-41: the guest reads n_fixed, returns 0
\* for n_fixed <= 0 and newton_sqrt(n_fixed) below SCALE, and otherwise starts
\* the search with left = 0, right = n_fixed, result = 0
EnterSqrt ==
    /\ hpc = "guest"
    /\ LET n_fixed == env[1].values[1]
       IN  IF n_fixed.neg \/ n_fixed.mag = << >>
           THEN /\ committed' = Committed(<< n_fixed, << >> >>, GUEST_SQRT_SCALE)
                /\ hpc' = "committed"
                /\ guest' = guest
           ELSE IF BigLess(n_fixed.mag, BigOfInt(GUEST_SQRT_SCALE))
           THEN /\ committed' = Committed(<< n_fixed, BigOfInt(newton_sqrt(n_fixed.mag[1])) >>,
                                          GUEST_SQRT_SCALE)
                /\ hpc' = "committed"
                /\ guest' = guest
           ELSE /\ guest' = Some([left |-> << >>, right |-> n_fixed.mag, result |-> << >>,
                                  overflowed |-> FALSE])
                /\ hpc' = "search"
                /\ committed' = committed
    /\ UNCHANGED << operation, args, herr, now, fsDirs, temp_dir, buildCalls, proveCalls,
                     dynamic_elf_data, dispatch, env, receipt, hostRecord, actual_image_id,
                     verifyCalls, is_verified, files, output, peer, verifierVars >>

\* lines 43-60: one round of `while left <= right`, or the return of result
\* after the loop.  A build with overflow checks panics at a product beyond
\* i64::MAX, one without them goes on with the wrapped product.
SearchStep ==
    /\ hpc = "search"
    /\ LET n_fixed == env[1].values[1]
           left == guest[1].left
           right == guest[1].right
       IN  IF BigLess(right, left)
           THEN /\ committed' = Committed(<< n_fixed, guest[1].result >>, GUEST_SQRT_SCALE)
                /\ hpc' = "committed"
                /\ UNCHANGED << guest, herr >>
           ELSE LET mid == BigAdd(left, BigDiv(BigSub(right, left), 2))
                    mid_squared == MidSquared(mid)
                    o == guest[1].overflowed \/ mid_squared.overflow
                IN  \E overflow_checks \in BOOLEAN :
                       IF overflow_checks /\ mid_squared.overflow
                       THEN /\ hpc' = "error"
                            /\ herr' = "attempt to multiply with overflow"
                            /\ guest' = Some([guest[1] EXCEPT !.overflowed = TRUE])
                            /\ committed' = committed
                       ELSE IF ~mid_squared.negative /\ mid_squared.mag = n_fixed.mag
                       THEN /\ committed' = Committed(<< n_fixed, mid >>, GUEST_SQRT_SCALE)
                            /\ hpc' = "committed"
                            /\ guest' = Some([guest[1] EXCEPT !.overflowed = o])
                            /\ herr' = herr
                       ELSE /\ guest' =
                                 IF mid_squared.negative \/ BigLess(mid_squared.mag, n_fixed.mag)
                                 THEN Some([left |-> BigAdd(mid, << 1 >>), right |-> right,
                                            result |-> mid, overflowed |-> o])
                                 ELSE Some([left |-> left, right |-> BigSub(mid, << 1 >>),
                                            result |-> guest[1].result, overflowed |-> o])
                            /\ UNCHANGED << hpc, herr, committed >>
    /\ UNCHANGED << operation, args, now, fsDirs, temp_dir, buildCalls, proveCalls,
                     dynamic_elf_data, dispatch, env, receipt, hostRecord, actual_image_id,
                     verifyCalls, is_verified, files, output, peer, verifierVars >>

SqrtNext == EnterSqrt \/ SearchStep

SpecSqrt == SqrtInit /\ [][SqrtNext]_vars

\* x is the largest value with (x * x) / SCALE <= n, products taken exactly
IsLargestRoot(n, x) ==
    /\ ~BigLess(n, x)
    /\ ~BigLess(n, BigDiv(BigMul(x, x), GUEST_SQRT_SCALE))
    /\ LET y == BigAdd(x, << 1 >>)
       IN  BigLess(n, BigDiv(BigMul(y, y), GUEST_SQRT_SCALE))

\* C29: for every n_fixed >= SCALE the binary search of fixed_point_sqrt returns
\* the largest x in [0, n_fixed] with (x * x) / SCALE <= n_fixed and no product
\* mid * mid leaves the i64 range; for n_fixed <= 0 the result is 0.
C29_SqrtSearchExactWithinI64 ==
    LET n_fixed == env[1].values[1]
    IN  /\ hpc # "error"
        /\ guest # None => ~guest[1].overflowed
        /\ committed # None
           => LET sqrt_result == committed[1].fields[2]
              IN  /\ (n_fixed.neg \/ n_fixed.mag = << >>) => sqrt_result = << >>
                  /\ (~n_fixed.neg /\ ~BigLess(n_fixed.mag, BigOfInt(GUEST_SQRT_SCALE)))
                     => IsLargestRoot(n_fixed.mag, sqrt_result)

\* the secrets a second run of the range operation may hold
OtherSecrets == 0..12

\* C30: the journal of the range operation depends on the secret only through
\* the committed predicates: a run with the same min and max whose secret gives
\* the same (above_min, below_max) commits the same bytes, and the journal is
\* the three predicates followed by min and max, the secret nowhere in it.
C30_RangeJournalHidesSecret ==
    (operation = "range" /\ receipt # None)
    => LET secret == args[1].val
           min == args[2].val
           max == args[3].val
           journal == receipt[1].journal
       IN  /\ \A other \in OtherSecrets :
                 ((other >= min) = (secret >= min) /\ (other <= max) = (secret <= max))
                 => Commit("range", GuestRun("range", << other, min, max >>)[1].fields)
                        = journal
           /\ journal = BoolToLE(secret >= min /\ secret <= max) \o BoolToLE(secret >= min)
                            \o BoolToLE(secret <= max) \o U64ToLE(min) \o U64ToLE(max)

\* a proved range run with secret 7 in [1, 10], whose journal is also the
\* journal of the secret 10
C30_Witness ==
    /\ operation = "range"
    /\ receipt # None
    /\ args = << Num(7), Num(1), Num(10) >>
    /\ receipt[1].journal = Commit("range", GuestRange(10, 1, 10))

(***************************************************************************)
(* Two host invocations sharing the clock and the filesystem               *)
(* (host/src/main.rs main, run twice)                                      *)
(***************************************************************************)
PeerOperations == {"dynamic", "add"}

\* the receipt the second invocation proves
PeerReceipt(op) ==
    IF op = "dynamic" THEN Receipt(BinaryElf("guest_b"), CommitResult(<<-6>>), TRUE)
    ELSE Receipt(StaticElf(ADDITION), CommitAdd(GuestAdd(1, 2)), TRUE)

PeersInit ==
    /\ HostInit
    /\ VerifierInit
    /\ peer \in { [pc |-> "start", operation |-> op, temp_dir |-> None] : op \in PeerOperations }
    /\ guest = None

\* lines 221-222: a built-in operation provisions nothing
PeerProvisionBuiltin ==
    /\ peer.pc = "start"
    /\ peer.operation # "dynamic"
    /\ peer' = [peer EXCEPT !.pc = "prove"]
    /\ UNCHANGED << hostVars, guest, verifierVars >>

\* lines 235-237: the directory named by the clock's second; create_dir_all
\* succeeds on a directory that exists
PeerCreateTempDir ==
    /\ peer.pc = "start"
    /\ peer.operation = "dynamic"
    /\ \E t \in now..MaxClock :
          /\ now' = t
          /\ fsDirs' = fsDirs \cup {t}
          /\ peer' = [peer EXCEPT !.pc = "build", !.temp_dir = Some(t)]
    /\ UNCHANGED << operation, args, hpc, herr, temp_dir, buildCalls, proveCalls,
                     dynamic_elf_data, dispatch, env, receipt, committed, hostRecord,
                     actual_image_id, verifyCalls, is_verified, files, output, guest,
                     verifierVars >>

\* lines 239-302: write the project, build; remove_dir_all after a build that
\* produced the binary, an early return otherwise
PeerBuildGuest ==
    /\ peer.pc = "build"
    /\ \E built \in BOOLEAN :
          IF built
          THEN /\ fsDirs' = fsDirs \ {peer.temp_dir[1]}
               /\ peer' = [peer EXCEPT !.pc = "prove"]
          ELSE /\ fsDirs' = fsDirs
               /\ peer' = [peer EXCEPT !.pc = "error"]
    /\ UNCHANGED << operation, args, hpc, herr, now, temp_dir, buildCalls, proveCalls,
                     dynamic_elf_data, dispatch, env, receipt, committed, hostRecord,
                     actual_image_id, verifyCalls, is_verified, files, output, guest,
                     verifierVars >>

\* lines 465-739: prove, then write the proof under the name of lines 718-735
PeerSave ==
    /\ peer.pc = "prove"
    /\ \E t \in now..MaxClock :
          /\ now' = t
          /\ files' = WriteFile(files, ProofFilename(peer.operation, t),
                                SerializeReceipt(PeerReceipt(peer.operation)))
    /\ peer' = [peer EXCEPT !.pc = "done"]
    /\ UNCHANGED << operation, args, hpc, herr, fsDirs, temp_dir, buildCalls, proveCalls,
                     dynamic_elf_data, dispatch, env, receipt, committed, hostRecord,
                     actual_image_id, verifyCalls, is_verified, output, guest, verifierVars
                     >>

PeerNext == PeerProvisionBuiltin \/ PeerCreateTempDir \/ PeerBuildGuest \/ PeerSave

PeersNext == HostNext \/ PeerNext

SpecPeers == PeersInit /\ [][PeersNext]_vars

\* C14: any two invocations of the dynamic operation use different temporary
\* build directories, so the directory an invocation writes to and builds in is
\* there until that invocation removes it.
C14_DistinctTempDirs ==
    /\ (temp_dir # None /\ peer.temp_dir # None) => temp_dir[1] # peer.temp_dir[1]
    /\ hpc \in {"write project", "build"} => temp_dir[1] \in fsDirs
    /\ peer.pc = "build" => peer.temp_dir[1] \in fsDirs

\* C15: a proof artifact file, once written, is never overwritten or modified
\* by a later or concurrent invocation.
C15_ArtifactNeverOverwritten == [][\A f \in files : f \in files']_vars

====
